---- MODULE Spec2Model ----
(***************************************************************************)
(* Model of the deep-research pipeline (DeepResearchPipeline.runResearch,  *)
(* the SearchResults value type and the source filter).                    *)
(*                                                                         *)
(* Strings are sequences of small naturals (characters).  Document text is *)
(* a token: 0 is the empty string / an absent optional field, a positive   *)
(* number is some non-empty text.                                          *)
(***************************************************************************)
EXTENDS Integers, Sequences, FiniteSets, TLC

VARIABLES
    cfg,              \* researchConfig and constructor options of the pipeline
    pc,               \* position of runResearch
    topic,            \* clarifiedTopic
    i,                \* loop counter of conductIterativeResearch
    results,          \* accumulated SearchResults (results.results)
    processedResults, \* what processSearchResults returned
    allQueries,       \* query history (the array shared with initialQueries)
    tasks,            \* the per-query tasks of the performSearch call in flight
    searchResult,     \* how the latest performSearch call settled
    cache,            \* cache directory: key -> stored results
    locks,            \* lock files present in the cache directory
    filtered,         \* what filterResults returned
    currentSpending,  \* this.currentSpending
    outcome,          \* what runResearch settled with
    calls,            \* how often each collaborator / stage was invoked
    failures,         \* every collaborator failure that happened so far
    args,             \* inputs of a pure operation under test
    ret               \* outputs of a pure operation under test

vars == <<cfg, pc, topic, i, results, processedResults, allQueries, tasks,
          searchResult, cache, locks, filtered, currentSpending, outcome, calls, failures, args, ret>>

pipelineVars == <<cfg, pc, topic, i, results, processedResults, allQueries, tasks,
                  searchResult, cache, locks, filtered, currentSpending, outcome, calls, failures>>

(***************************************************************************)
(* Bounds of the model.                                                    *)
(***************************************************************************)
MaxBudget == 2      \* budgets 0..MaxBudget are explored
MaxLen == 3         \* longest result list handed to dedup / filterResults
MaxOperand == 1     \* longest second and third operand of add
MaxSourcesLen == 4  \* longest index list returned by the ranking model
MaxCap == 2         \* largest maxSources handed to filterResults
MaxPipelines == 2   \* pipelines constructed one after the other
LongLen == 401      \* length of the over-long query string

(***************************************************************************)
(* Program constants.                                                      *)
(***************************************************************************)
QueryLimit == 400

Min(a, b) == IF a < b THEN a ELSE b

\* All sequences over S of length at most n
SeqsUpTo(S, n) == UNION {[1..k -> S] : k \in 0..n}

\* s.slice(0, n) of an array and s.substring(0, n) of a string, n >= 0
Slice(s, n) == SubSeq(s, 1, Min(n, Len(s)))


(***************************************************************************)
(* models.ts: SearchResult and SearchResults                               *)
(***************************************************************************)
Links == {1, 2}
Texts == {1, 2}
Absent == 0

SearchResult(title, link, content, filteredRawContent) ==
    [title |-> title, link |-> link, content |-> content,
     filteredRawContent |-> filteredRawContent]

\* Documents as they sit in a SearchResults of the pipeline
Documents ==
    {SearchResult(l, l, c, s) : l \in Links, c \in Texts, s \in {Absent} \cup Texts}

RECURSIVE dedupLoop(_, _, _)
dedupLoop(rest, seenLinks, uniqueResults) ==
    IF rest = <<>> THEN uniqueResults
    ELSE IF Head(rest).link \notin seenLinks
         THEN dedupLoop(Tail(rest), seenLinks \cup {Head(rest).link},
                        Append(uniqueResults, Head(rest)))
         ELSE dedupLoop(Tail(rest), seenLinks, uniqueResults)

\* a dedup that lets a later occurrence replace the earlier one
RECURSIVE dedupLastWinsLoop(_, _)
dedupLastWinsLoop(rest, uniqueResults) ==
    IF rest = <<>> THEN uniqueResults
    ELSE LET r == Head(rest)
             hit == {k \in DOMAIN uniqueResults : uniqueResults[k].link = r.link}
         IN  IF hit = {}
             THEN dedupLastWinsLoop(Tail(rest), Append(uniqueResults, r))
             ELSE dedupLastWinsLoop(Tail(rest),
                      [k \in DOMAIN uniqueResults |->
                          IF k \in hit THEN r ELSE uniqueResults[k]])

dedupLastWins(X) == dedupLastWinsLoop(X, <<>>)

\* a dedup that keeps every document
dedupNever(X) == X

\* SearchResults.dedup(): X is this.results, the value is the new object's results
dedup(X) == dedupLoop(X, {}, <<>>)

\* an add that puts the other operand's results first
addInFront(this, other) ==
    [ret |-> other \o this, this |-> this, other |-> other]

\* an add that pushes onto the receiver's own array
addInPlace(this, other) ==
    [ret |-> this \o other, this |-> this \o other, other |-> other]

\* SearchResults.add(other): the new object's results, and both operands afterwards
add(this, other) ==
    [ret |-> this \o other, this |-> this, other |-> other]

(***************************************************************************)
(* research-pipeline.ts: filterResults, after the ranking model answered   *)
(***************************************************************************)
\* a cap applied after the out-of-range indices were dropped
limitSourcesNoCap(sources, maxSources) == sources

\* "Limit sources if needed"
limitSources(sources, maxSources) ==
    IF maxSources > 0 THEN Slice(sources, maxSources) ELSE sources

\* a selection that reads results[i] instead of results[i - 1]
pickSourcesOffByOne(res, limitedSources) ==
    LET kept == SelectSeq(limitedSources, LAMBDA x : x > 0 /\ x <= Len(res))
    IN  [j \in DOMAIN kept |-> res[IF kept[j] < Len(res) THEN kept[j] + 1 ELSE 1]]

\* "Filter the results based on the source list"
pickSources(res, limitedSources) ==
    LET kept == SelectSeq(limitedSources, LAMBDA x : x > 0 /\ x <= Len(res))
    IN  [j \in DOMAIN kept |-> res[kept[j]]]

\* the pair filterResults returns for the model's index list `sources`
selectSources(res, sources, maxSources) ==
    LET limitedSources == limitSources(sources, maxSources)
    IN  [filteredResults |-> pickSources(res, limitedSources),
         limitedSources |-> limitedSources]

(***************************************************************************)
(* The pipeline at rest (no runResearch call in progress)                  *)
(***************************************************************************)
NoOutcome == [kind |-> "none"]

ZeroCalls ==
    [evaluate |-> 0, performSearch |-> 0, provider |-> 0, structured |-> 0,
     text |-> 0, summarize |-> 0, answer |-> 0, wait |-> 0]

PipelineIdle ==
    /\ cfg = [budget |-> 0, maxQueries |-> 0, maxSources |-> 0,
              interactive |-> FALSE, useCache |-> FALSE, definition |-> "first"]
    /\ pc = "idle"
    /\ topic = <<>>
    /\ i = 0
    /\ results = <<>>
    /\ processedResults = <<>>
    /\ allQueries = <<>>
    /\ tasks = <<>>
    /\ searchResult = [kind |-> "none"]
    /\ cache = <<>>
    /\ locks = {}
    /\ filtered = <<>>
    /\ currentSpending = 0
    /\ outcome = NoOutcome
    /\ calls = ZeroCalls
    /\ failures = {}

(***************************************************************************)
(* SearchResults.dedup on arbitrary result lists                           *)
(***************************************************************************)
InitDedup ==
    /\ PipelineIdle
    /\ args \in {[X |-> x] : x \in SeqsUpTo(Documents, MaxLen)}
    /\ ret = [op |-> "none"]

DedupCall ==
    /\ ret.op = "none"
    /\ ret' = [op |-> "dedup", once |-> dedup(args.X),
               twice |-> dedup(dedup(args.X))]
    /\ UNCHANGED <<args, pipelineVars>>

NextDedup == DedupCall

SpecDedup == InitDedup /\ [][NextDedup]_vars

(***************************************************************************)
(* SearchResults.add on arbitrary operands                                 *)
(***************************************************************************)
\* the documents of the operands: two links, one of them with two contents
AddDocuments ==
    {SearchResult(1, 1, 1, Absent), SearchResult(1, 1, 2, Absent),
     SearchResult(2, 2, 1, Absent)}

InitAdd ==
    /\ PipelineIdle
    /\ args \in {[A |-> a, B |-> b, C |-> c] :
                    a \in SeqsUpTo(AddDocuments, MaxOperand + 1),
                    b \in SeqsUpTo(AddDocuments, MaxOperand),
                    c \in SeqsUpTo(AddDocuments, MaxOperand)}
    /\ ret = [op |-> "none"]

\* A.add(B).add(C), then A.add(B.add(C)) on the same three objects
AddCall ==
    /\ ret.op = "none"
    /\ LET ab == add(args.A, args.B)
           abc == add(ab.ret, args.C)
           bc == add(ab.other, abc.other)
           a_bc == add(ab.this, bc.ret)
       IN  ret' = [op |-> "add", left |-> abc.ret, right |-> a_bc.ret,
                   A |-> a_bc.this, B |-> bc.this, C |-> bc.other]
    /\ UNCHANGED <<args, pipelineVars>>

NextAdd == AddCall

SpecAdd == InitAdd /\ [][NextAdd]_vars

(***************************************************************************)
(* filterResults on arbitrary index lists                                  *)
(***************************************************************************)
\* a deduplicated result set of k documents
ResultSetOf(k) == [n \in 1..k |-> SearchResult(n, n, 1, n)]

\* what the ranking model may return: in-range, zero, negative, too large
IndexPool == (-1)..(MaxLen + 1)

InitFilter ==
    /\ PipelineIdle
    /\ args \in {[results |-> ResultSetOf(k), sources |-> s, maxSources |-> m] :
                    k \in {0, 1, MaxLen}, s \in SeqsUpTo(IndexPool, MaxSourcesLen),
                    m \in 0..MaxCap}
    /\ ret = [op |-> "none"]

FilterCall ==
    /\ ret.op = "none"
    /\ ret' = [op |-> "filter",
               out |-> selectSources(args.results, args.sources, args.maxSources)]
    /\ UNCHANGED <<args, pipelineVars>>

NextFilter == FilterCall

SpecFilter == InitFilter /\ [][NextFilter]_vars

(***************************************************************************)
(* Strings and the collaborators' possible answers                         *)
(***************************************************************************)
\* a string of n characters whose characters differ from their neighbours
Str(n) == [k \in 1..n |-> k % 3]

EmptyString == <<>>
LongQuery == Str(LongLen)
ExactQuery == Str(QueryLimit)
Topics == {Str(2)}
DetailQuery == Str(3)
AnswerText == <<5>>
YesString == <<7>>
ContinueString == <<8>>

\* structured query lists the planning model may return (the last one
\* repeats the topic)
PlannerLists == {<<>>, <<LongQuery>>, <<DetailQuery>>, <<Str(2)>>}

\* structured query lists the evaluation model may return
EvaluatorLists == {<<>>, <<ExactQuery, LongQuery>>}

\* structured index lists the ranking model may return
RankingLists == {<<2, 1>>, <<0, 1, 3, 2>>}

\* what the search provider may answer to a query (searchOnExa's mapping of
\* exa's results: title, link, text; no filteredRawContent)
ProviderResponses ==
    {<<SearchResult(1, 1, 1, Absent), SearchResult(2, 2, 2, Absent)>>,
     <<SearchResult(2, 2, Absent, Absent), SearchResult(1, 1, 2, Absent)>>,
     <<SearchResult(1, 1, 1, Absent)>>}

\* most documents in one provider answer
MaxDocs == Cardinality(UNION {DOMAIN r : r \in ProviderResponses})

\* what getUserInputWithTimeout resolves with: the simulated wait always "".
UserInputs == {EmptyString}

\* the text the summary model returns for a document's content: a text of its
\* own, never the raw content
SummaryOf(content) == content + 10

\* the maxSources options explored in the pipeline
SourceCaps == {2}

\* config.ts: RESEARCH_CONFIG, no constructor options
DefaultConfig ==
    [budget |-> 2, maxQueries |-> 2, maxSources |-> 5, interactive |-> FALSE,
     useCache |-> FALSE, definition |-> "first"]

\* research-pipeline.ts holds two definitions of DeepResearchPipeline: the
\* first (lines 26-793) with clarification, feedback and the cache, the
\* second (lines 820-1344) without them
\* (explored: every budget with a query cap of 1, with and without the
\* cache, in interactive mode and for the second definition; no query cap
\* with budgets up to 1; the default configuration)
Configs ==
    [budget : 0..MaxBudget, maxQueries : {1}, maxSources : SourceCaps,
     interactive : {FALSE}, useCache : BOOLEAN, definition : {"first"}]
    \cup
    [budget : 0..Min(1, MaxBudget), maxQueries : {0}, maxSources : SourceCaps,
     interactive : {FALSE}, useCache : BOOLEAN, definition : {"first"}]
    \cup
    [budget : 0..MaxBudget, maxQueries : {1}, maxSources : SourceCaps,
     interactive : {TRUE}, useCache : {FALSE}, definition : {"first"}]
    \cup
    [budget : 0..MaxBudget, maxQueries : {1}, maxSources : SourceCaps,
     interactive : {FALSE}, useCache : {FALSE}, definition : {"second"}]
    \cup {DefaultConfig}

(***************************************************************************)
(* research-pipeline.ts: cache files                                       *)
(***************************************************************************)
\* exa_<md5(query)>.json: the hash is taken to be collision-free
getCachePath(query) == <<"exa", query>>

\* one lock file for the whole cache directory
getLockPathShared(cachePath) == <<<<"exa", EmptyString>>, "lock">>

getLockPath(cachePath) == <<cachePath, "lock">>

\* JSON.stringify of one document: a property whose value is undefined is
\* left out
stringifyDoc(d) ==
    IF d.filteredRawContent = Absent
    THEN [title |-> d.title, link |-> d.link, content |-> d.content]
    ELSE [title |-> d.title, link |-> d.link, content |-> d.content,
          filteredRawContent |-> d.filteredRawContent]

\* a parse that loses the summary
parseDocWithoutSummary(o) == SearchResult(o.title, o.link, o.content, Absent)

\* JSON.parse of one document: a property that is not there reads undefined
parseDoc(o) ==
    SearchResult(o.title, o.link, o.content,
                 IF "filteredRawContent" \in DOMAIN o
                 THEN o.filteredRawContent ELSE Absent)

\* the content of an entry file: JSON.stringify(results) of a SearchResults,
\* text that JSON.parse rejects (an empty or cut-off file), or JSON of
\* another shape, without a results array ("{}")
JsonEntry(res) ==
    [kind |-> "json", results |-> [j \in DOMAIN res |-> stringifyDoc(res[j])]]

UnparsableEntry == [kind |-> "unparsable", results |-> <<>>]

MalformedEntry == [kind |-> "malformed", results |-> <<>>]

\* what loadFromCache returns: null, or a SearchResults whose results array
\* is the parsed one (iterable), or undefined for JSON without a results array
Null == [hit |-> FALSE, iterable |-> FALSE, results |-> <<>>]

\* a lookup that does not look at the lock file
loadIgnoringLock(useCache, cacheNow, locksNow, query) ==
    LET cachePath == getCachePath(query)
    IN  IF ~useCache THEN Null
        ELSE IF cachePath \in DOMAIN cacheNow
             THEN IF cacheNow[cachePath].kind = "unparsable" THEN Null
                  ELSE [hit |-> TRUE,
                        iterable |-> cacheNow[cachePath].kind = "json",
                        results |-> [j \in DOMAIN cacheNow[cachePath].results |->
                                         parseDoc(cacheNow[cachePath].results[j])]]
             ELSE Null

\* a lookup that reads the directory although caching is switched off
loadAlways(useCache, cacheNow, locksNow, query) ==
    LET cachePath == getCachePath(query)
        lockPath == getLockPath(cachePath)
    IN  IF cachePath \in DOMAIN cacheNow /\ lockPath \notin locksNow
        THEN IF cacheNow[cachePath].kind = "unparsable" THEN Null
             ELSE [hit |-> TRUE,
                   iterable |-> cacheNow[cachePath].kind = "json",
                   results |-> [j \in DOMAIN cacheNow[cachePath].results |->
                                    parseDoc(cacheNow[cachePath].results[j])]]
        ELSE Null

\* loadFromCache on a cache directory holding cacheNow and locksNow
\* (performSearch's own "if (this.useCache)" repeats the first test)
loadFrom(useCache, cacheNow, locksNow, query) ==
    LET cachePath == getCachePath(query)
        lockPath == getLockPath(cachePath)
    IN  IF ~useCache THEN Null
        ELSE IF cachePath \in DOMAIN cacheNow /\ lockPath \notin locksNow
             THEN IF cacheNow[cachePath].kind = "unparsable"
                  THEN Null    \* JSON.parse throws, caught and logged
                  ELSE [hit |-> TRUE,
                        iterable |-> cacheNow[cachePath].kind = "json",
                        results |-> [j \in DOMAIN cacheNow[cachePath].results |->
                                         parseDoc(cacheNow[cachePath].results[j])]]
             ELSE Null

\* loadFromCache of the pipeline
loadFromCache(query) == loadFrom(cfg.useCache, cache, locks, query)

\* how fs.writeFileSync(cachePath, ...) can end: the entry written in full;
\* an exception before anything was written; an exception after the file was
\* cut to a part of the text
WriteOutcomes == {"written", "refused", "cut"}

\* a save that leaves the lock files of the directory as they were
saveKeepingForeignLock(useCache, cacheNow, locksNow, query, res, w) ==
    LET cachePath == getCachePath(query)
        lockPath == getLockPath(cachePath)
    IN  IF ~useCache
        THEN [cache |-> cacheNow, locks |-> locksNow, threw |-> FALSE]
        ELSE [cache |-> IF w = "written" THEN (cachePath :> JsonEntry(res)) @@ cacheNow
                        ELSE IF w = "cut" THEN (cachePath :> UnparsableEntry) @@ cacheNow
                        ELSE cacheNow,
              locks |-> locksNow,
              threw |-> w # "written"]

\* a save whose lock removal follows the entry write only when that succeeded
saveKeepingLockOnFailure(useCache, cacheNow, locksNow, query, res, w) ==
    LET cachePath == getCachePath(query)
        lockPath == getLockPath(cachePath)
    IN  IF ~useCache
        THEN [cache |-> cacheNow, locks |-> locksNow, threw |-> FALSE]
        ELSE [cache |-> IF w = "written" THEN (cachePath :> JsonEntry(res)) @@ cacheNow
                        ELSE IF w = "cut" THEN (cachePath :> UnparsableEntry) @@ cacheNow
                        ELSE cacheNow,
              locks |-> IF w = "written" THEN locksNow \ {lockPath}
                        ELSE locksNow \cup {lockPath},
              threw |-> w # "written"]

\* saveToCache on a cache directory holding cacheNow and locksNow, the entry
\* write ending as w: lock file written, entry written, lock file removed in
\* the finally block.  Creating the empty lock file and removing it are taken
\* to succeed.
saveTo(useCache, cacheNow, locksNow, query, res, w) ==
    LET cachePath == getCachePath(query)
        lockPath == getLockPath(cachePath)
        locked == locksNow \cup {lockPath}
    IN  IF ~useCache
        THEN [cache |-> cacheNow, locks |-> locksNow, threw |-> FALSE]
        ELSE [cache |-> IF w = "written" THEN (cachePath :> JsonEntry(res)) @@ cacheNow
                        ELSE IF w = "cut" THEN (cachePath :> UnparsableEntry) @@ cacheNow
                        ELSE cacheNow,
              locks |-> locked \ {lockPath},
              threw |-> w # "written"]

\* saveToCache of the pipeline
saveToCache(query, res, w) == saveTo(cfg.useCache, cache, locks, query, res, w)

\* what the cache directory may hold when a pipeline is constructed: nothing,
\* or for the topic's key an entry written earlier, an entry under a lock
\* file left behind, an entry JSON.parse rejects, JSON without a results
\* array, or a lock file alone
StoredResults == <<SearchResult(2, 2, 2, SummaryOf(2))>>

DiskOf(entries, lockPaths) == [cache |-> entries, locks |-> lockPaths]

InitialDisks ==
    UNION {{DiskOf(getCachePath(t) :> JsonEntry(StoredResults), {}),
            DiskOf(getCachePath(t) :> JsonEntry(StoredResults),
                   {getLockPath(getCachePath(t))}),
            DiskOf(getCachePath(t) :> UnparsableEntry, {}),
            DiskOf(getCachePath(t) :> MalformedEntry, {}),
            DiskOf(<<>>, {getLockPath(getCachePath(t))})} : t \in Topics}

\* the configurations explored on a cache directory that is not empty
DiskConfigs ==
    {c \in Configs : /\ c.definition = "first"
                     /\ ~c.interactive
                     /\ c.maxQueries = 1
                     /\ c.budget = Min(1, MaxBudget)}

(***************************************************************************)
(* saveToCache and loadFromCache called one after the other by one         *)
(* pipeline on an arbitrary cache directory                                *)
(***************************************************************************)
CacheQueries == {Str(1), Str(2)}

CacheDocuments ==
    {SearchResult(1, 1, 1, Absent), SearchResult(1, 1, 1, SummaryOf(1)),
     SearchResult(2, 2, 2, SummaryOf(2))}

CacheResultSets == SeqsUpTo(CacheDocuments, MaxOperand + 1)

\* the entry files and lock files the directory may hold for the queries
CacheEntries == {JsonEntry(StoredResults), UnparsableEntry, MalformedEntry}

CacheDirectories ==
    UNION {[{getCachePath(q) : q \in Q} -> CacheEntries] : Q \in SUBSET CacheQueries}

LockDirectories == SUBSET {getLockPath(getCachePath(q)) : q \in CacheQueries}

InitCache ==
    /\ cfg \in [budget : {0}, maxQueries : {0}, maxSources : {0},
                 interactive : {FALSE}, useCache : BOOLEAN, definition : {"first"}]
    /\ pc = "idle"
    /\ topic = <<>>
    /\ i = 0
    /\ results = <<>>
    /\ processedResults = <<>>
    /\ allQueries = <<>>
    /\ tasks = <<>>
    /\ searchResult = [kind |-> "none"]
    /\ cache \in CacheDirectories
    /\ locks \in LockDirectories
    /\ filtered = <<>>
    /\ currentSpending = 0
    /\ outcome = NoOutcome
    /\ calls = ZeroCalls
    /\ failures = {}
    /\ args = [op |-> "none"]
    /\ ret = [op |-> "none"]

\* this.saveToCache(query, results) returns or throws
SaveToCacheCall ==
    /\ ret.op = "none"
    /\ \E query \in CacheQueries, res \in CacheResultSets, w \in WriteOutcomes :
          LET saved == saveToCache(query, res, w)
          IN  /\ cache' = saved.cache
              /\ locks' = saved.locks
              /\ args' = [op |-> "save", query |-> query, results |-> res,
                          cache |-> cache, locks |-> locks]
              /\ ret' = [op |-> "save", threw |-> saved.threw]
    /\ UNCHANGED <<cfg, pc, topic, i, results, processedResults, allQueries, tasks,
                   searchResult, filtered, currentSpending, outcome, calls, failures>>

\* this.loadFromCache(query) returns
LoadFromCacheCall ==
    /\ ret.op \in {"none", "save"}
    /\ \E query \in CacheQueries :
          /\ args' = [op |-> "load", query |-> query, before |-> args]
          /\ ret' = [op |-> "load", value |-> loadFromCache(query), before |-> ret]
    /\ UNCHANGED pipelineVars

NextCache == SaveToCacheCall \/ LoadFromCacheCall

SpecCache == InitCache /\ [][NextCache]_vars

(***************************************************************************)
(* research-pipeline.ts: the constructor, called several times in one      *)
(* program.  args is the object the module config.ts exports as            *)
(* RESEARCH_CONFIG, ret the pipelines constructed so far: each holds a     *)
(* reference to the object it was given, by default that exported object.  *)
(***************************************************************************)
RESEARCH_CONFIG == [budget |-> 2, maxQueries |-> 2, maxSources |-> 5, maxTokens |-> 8192]

\* an option is left out (undefined) or given: <<>> or <<value>>
Undefined == <<>>

\* the options a caller may pass
ConstructorOptions ==
    [maxQueries : {Undefined, <<0>>, <<1>>}, maxSources : {Undefined, <<3>>},
     maxCompletionTokens : {Undefined, <<100>>}]

NoOptions ==
    [maxQueries |-> Undefined, maxSources |-> Undefined,
     maxCompletionTokens |-> Undefined]

\* "Override config with options": the assignments to this.researchConfig's
\* properties, seen on the object this.researchConfig refers to
override(researchConfig, options) ==
    [researchConfig EXCEPT
        !.maxQueries = IF options.maxQueries # Undefined
                       THEN options.maxQueries[1] ELSE @,
        !.maxSources = IF options.maxSources # Undefined
                       THEN options.maxSources[1] ELSE @,
        !.maxTokens = IF options.maxCompletionTokens # Undefined
                      THEN options.maxCompletionTokens[1] ELSE @]

InitConfig ==
    /\ PipelineIdle
    /\ args = RESEARCH_CONFIG
    /\ ret = <<>>

\* new DeepResearchPipeline(MODEL_CONFIG, RESEARCH_CONFIG, PROMPTS, options)
Construct ==
    /\ Len(ret) < MaxPipelines
    /\ \E options \in ConstructorOptions :
          /\ args' = override(args, options)
          /\ ret' = Append(ret, [researchConfig |-> "RESEARCH_CONFIG",
                                 options |-> options])
    /\ UNCHANGED pipelineVars

NextConfig == Construct

SpecConfig == InitConfig /\ [][NextConfig]_vars

\* the limits pipeline p works with: it reads this.researchConfig when it runs
LimitsOf(p) == args

(***************************************************************************)
(* saveToCache and loadFromCache calls of several pipelines (processes)    *)
(* that share one cache directory, one file-system call at a time.         *)
(* fs.writeFileSync(path, text) opens the file, which cuts it to length 0, *)
(* and then writes the text from position 0; the calls are taken to        *)
(* succeed, except an unlink of a lock file another writer removed.        *)
(***************************************************************************)
Writers == {1, 2}

Readers == {3}

RaceQueries == CacheQueries

\* what the racing writers save: the first a longer text than the second
LongResults == <<SearchResult(1, 1, 1, SummaryOf(1)), SearchResult(2, 2, 2, SummaryOf(2))>>

ShortResults == <<SearchResult(1, 1, 2, SummaryOf(2))>>

ResultsOf(p) == IF p = 1 THEN LongResults ELSE ShortResults

\* the directory the race starts on: empty, or an entry for every query
RaceDirectories ==
    {<<>>, [path \in {getCachePath(q) : q \in RaceQueries} |-> JsonEntry(StoredResults)]}

\* the file after text of `res` was written from position 0 over `current`:
\* what a longer text left behind stays after the new text
overwrite(current, res) ==
    IF current.kind = "json" /\ Len(current.results) > Len(res)
    THEN UnparsableEntry
    ELSE JsonEntry(res)

InitRace ==
    /\ cfg = [budget |-> 0, maxQueries |-> 0, maxSources |-> 0,
              interactive |-> FALSE, useCache |-> TRUE, definition |-> "first"]
    /\ pc = "idle"
    /\ topic = EmptyString
    /\ i = 0
    /\ results = <<>>
    /\ processedResults = <<>>
    /\ allQueries = <<>>
    /\ tasks = <<>>
    /\ searchResult = [kind |-> "none"]
    /\ cache \in RaceDirectories
    /\ locks = {}
    /\ filtered = <<>>
    /\ currentSpending = 0
    /\ outcome = NoOutcome
    /\ calls = ZeroCalls
    /\ failures = {}
    /\ \E qs \in [Writers \cup Readers -> RaceQueries] :
          args = [p \in Writers \cup Readers |->
                     IF p \in Writers
                     THEN [op |-> "save", query |-> qs[p], results |-> ResultsOf(p)]
                     ELSE [op |-> "load", query |-> qs[p], results |-> <<>>]]
    /\ ret = [p \in Writers \cup Readers |-> [pos |-> "call", wrote |-> 0, value |-> Null]]

CachePathOf(p) == getCachePath(args[p].query)

LockPathOfCall(p) == getLockPath(getCachePath(args[p].query))

\* how many entry writes were completed so far
WritesSoFar == Cardinality({p \in Writers : ret[p].wrote > 0})

\* saveToCache: fs.writeFileSync(lockPath, "")
WriteLock(p) ==
    /\ p \in Writers
    /\ ret[p].pos = "call"
    /\ locks' = locks \cup {LockPathOfCall(p)}
    /\ ret' = [ret EXCEPT ![p].pos = "locked"]
    /\ UNCHANGED <<cfg, pc, topic, i, results, processedResults, allQueries, tasks,
                   searchResult, cache, filtered, currentSpending, outcome, calls,
                   failures, args>>

\* saveToCache: fs.writeFileSync(cachePath, ...) opens the entry file
OpenEntry(p) ==
    /\ p \in Writers
    /\ ret[p].pos = "locked"
    /\ cache' = (CachePathOf(p) :> UnparsableEntry) @@ cache
    /\ ret' = [ret EXCEPT ![p].pos = "opened"]
    /\ UNCHANGED <<cfg, pc, topic, i, results, processedResults, allQueries, tasks,
                   searchResult, locks, filtered, currentSpending, outcome, calls,
                   failures, args>>

\* saveToCache: fs.writeFileSync(cachePath, ...) writes the text and returns
WriteEntry(p) ==
    /\ p \in Writers
    /\ ret[p].pos = "opened"
    /\ cache' = (CachePathOf(p) :> overwrite(cache[CachePathOf(p)], args[p].results))
                    @@ cache
    /\ ret' = [ret EXCEPT ![p].pos = "written", ![p].wrote = WritesSoFar + 1]
    /\ UNCHANGED <<cfg, pc, topic, i, results, processedResults, allQueries, tasks,
                   searchResult, locks, filtered, currentSpending, outcome, calls,
                   failures, args>>

\* saveToCache, finally: if (fs.existsSync(lockPath))
CheckLock(p) ==
    /\ p \in Writers
    /\ ret[p].pos = "written"
    /\ ret' = [ret EXCEPT ![p].pos = IF LockPathOfCall(p) \in locks
                                     THEN "checked" ELSE "returned"]
    /\ UNCHANGED <<cfg, pc, topic, i, results, processedResults, allQueries, tasks,
                   searchResult, cache, locks, filtered, currentSpending, outcome,
                   calls, failures, args>>

\* saveToCache, finally: fs.unlinkSync(lockPath), which throws when another
\* writer removed the file since the test
UnlinkLock(p) ==
    /\ p \in Writers
    /\ ret[p].pos = "checked"
    /\ locks' = locks \ {LockPathOfCall(p)}
    /\ ret' = [ret EXCEPT ![p].pos = IF LockPathOfCall(p) \in locks
                                     THEN "returned" ELSE "threw"]
    /\ UNCHANGED <<cfg, pc, topic, i, results, processedResults, allQueries, tasks,
                   searchResult, cache, filtered, currentSpending, outcome, calls,
                   failures, args>>

\* loadFromCache: fs.existsSync(cachePath)
ExistsEntry(p) ==
    /\ p \in Readers
    /\ ret[p].pos = "call"
    /\ ret' = [ret EXCEPT ![p].pos = IF CachePathOf(p) \in DOMAIN cache
                                     THEN "found" ELSE "returned"]
    /\ UNCHANGED <<cfg, pc, topic, i, results, processedResults, allQueries, tasks,
                   searchResult, cache, locks, filtered, currentSpending, outcome,
                   calls, failures, args>>

\* loadFromCache: !fs.existsSync(lockPath)
ExistsLock(p) ==
    /\ p \in Readers
    /\ ret[p].pos = "found"
    /\ ret' = [ret EXCEPT ![p].pos = IF LockPathOfCall(p) \in locks
                                     THEN "returned" ELSE "unlocked"]
    /\ UNCHANGED <<cfg, pc, topic, i, results, processedResults, allQueries, tasks,
                   searchResult, cache, locks, filtered, currentSpending, outcome,
                   calls, failures, args>>

\* loadFromCache: JSON.parse(fs.readFileSync(cachePath, "utf8")) and return
ReadEntry(p) ==
    /\ p \in Readers
    /\ ret[p].pos = "unlocked"
    /\ ret' = [ret EXCEPT ![p].pos = "returned",
                          ![p].value = loadFrom(TRUE, cache, {}, args[p].query)]
    /\ UNCHANGED <<cfg, pc, topic, i, results, processedResults, allQueries, tasks,
                   searchResult, cache, locks, filtered, currentSpending, outcome,
                   calls, failures, args>>

NextRace ==
    \/ \E p \in Writers : WriteLock(p)
    \/ \E p \in Writers : OpenEntry(p)
    \/ \E p \in Writers : WriteEntry(p)
    \/ \E p \in Writers : CheckLock(p)
    \/ \E p \in Writers : UnlinkLock(p)
    \/ \E p \in Readers : ExistsEntry(p)
    \/ \E p \in Readers : ExistsLock(p)
    \/ \E p \in Readers : ReadEntry(p)

SpecRace == InitRace /\ [][NextRace]_vars

(***************************************************************************)
(* research-pipeline.ts: webSearch / performSearch                         *)
(***************************************************************************)
\* no truncation at all
truncateNever(query) == query

\* webSearch: "Truncate long queries to avoid issues"
truncate(query) ==
    IF Len(query) > QueryLimit THEN Slice(query, QueryLimit) ELSE query

\* a cache that is asked with the truncated query
cacheQueryTruncated(query) == truncate(query)

\* the string performSearch hands to loadFromCache and saveToCache: the
\* query as it came (truncation happens later, inside webSearch)
cacheQuery(query) == query

\* a join that waits for every branch and never rejects
awaitAllSettled(states) ==
    IF \A k \in DOMAIN states : states[k] \in {"done", "failed"}
    THEN "fulfilled" ELSE "pending"

\* Promise.all over branches in the given states
awaitAll(states) ==
    IF \E k \in DOMAIN states : states[k] = "failed" THEN "rejected"
    ELSE IF \A k \in DOMAIN states : states[k] = "done" THEN "fulfilled"
    ELSE "pending"

\* the task performSearch creates for one query (the synchronous part of the
\* async arrow function: cache lookup, truncation, provider call issued);
\* settled is the task's place in the order in which the tasks that awaited
\* webSearch resolved (0: not resolved that way)
newTask(query) ==
    IF loadFromCache(cacheQuery(query)).hit
    THEN [query |-> query, sent |-> EmptyString, st |-> "done", cached |-> TRUE,
          iterable |-> loadFromCache(cacheQuery(query)).iterable, settled |-> 0,
          raw |-> <<>>, info |-> <<>>, sums |-> <<>>,
          out |-> loadFromCache(cacheQuery(query)).results]
    ELSE [query |-> query, sent |-> truncate(query), st |-> "searching",
          cached |-> FALSE, iterable |-> TRUE, settled |-> 0,
          raw |-> <<>>, info |-> <<>>, sums |-> <<>>, out |-> <<>>]

\* processSearchResultsWithSummarization: the documents that get a summary
resultInfoOf(raw) == SelectSeq(raw, LAMBDA r : r.content # Absent)

\* ... and the formatted results once every summary arrived (the second
\* definition stores the summary as the content)
formattedResults(info, sums) ==
    [j \in DOMAIN info |->
        IF cfg.definition = "first"
        THEN SearchResult(info[j].title, info[j].link, info[j].content, sums[j])
        ELSE SearchResult(info[j].title, info[j].link, sums[j], Absent)]

RECURSIVE addAll(_, _)
addAll(combinedResults, resultsList) ==
    IF resultsList = <<>> THEN combinedResults
    ELSE addAll(add(combinedResults, Head(resultsList)).ret, Tail(resultsList))

\* the tasks' indices in the order in which the tasks resolved
SettledOrder(ts) ==
    LET before(m, k) == \/ ts[m].settled < ts[k].settled
                        \/ ts[m].settled = ts[k].settled /\ m <= k
        place(k) == Cardinality({m \in DOMAIN ts : before(m, k)})
    IN  [r \in DOMAIN ts |-> CHOOSE k \in DOMAIN ts : place(k) = r]

\* a combination in the order in which the tasks resolved
combineResultsAsResolved(ts) ==
    dedup(addAll(<<>>, [r \in DOMAIN ts |-> ts[SettledOrder(ts)[r]].out]))

\* performSearch after Promise.all: combine in task order, then dedup
combineResults(ts) == dedup(addAll(<<>>, [k \in DOMAIN ts |-> ts[k].out]))

TaskStates(ts) == [k \in DOMAIN ts |-> ts[k].st]

(***************************************************************************)
(* research-pipeline.ts: runResearch                                       *)
(***************************************************************************)
Init ==
    /\ \/ /\ cfg \in Configs
          /\ cache = <<>>
          /\ locks = {}
       \/ /\ cfg \in DiskConfigs
          /\ \E d \in InitialDisks : cache = d.cache /\ locks = d.locks
    /\ pc = "idle"
    /\ topic = EmptyString
    /\ i = 0
    /\ results = <<>>
    /\ processedResults = <<>>
    /\ allQueries = <<>>
    /\ tasks = <<>>
    /\ searchResult = [kind |-> "none"]
    /\ filtered = <<>>
    /\ currentSpending = 0
    /\ outcome = NoOutcome
    /\ calls = ZeroCalls
    /\ failures = {}
    /\ args = <<>>
    /\ ret = <<>>

Running == pc \notin {"idle", "done", "failed"}

Searching == pc \in {"initial_search", "refine_search"}

\* calls with the counters named in fs raised by one
Bump(c, fs) == [f \in DOMAIN c |-> IF f \in fs THEN c[f] + 1 ELSE c[f]]

Failure(call, stage, task) ==
    [call |-> call, stage |-> stage, task |-> task, search |-> calls.performSearch]

\* an exception that is caught and followed by a synthesis of what is there
rejectSwallowed(f) ==
    /\ pc' = "answer"
    /\ outcome' = outcome
    /\ failures' = failures \cup {f}

\* an exception leaves runResearch: nothing in it catches
Reject(f) ==
    /\ pc' = "failed"
    /\ outcome' = [kind |-> "rejected", error |-> f]
    /\ failures' = failures \cup {f}

\* an off-by-one loop test, and a loop that reads a budget of 0 as "no limit"
budgetLeftInclusive(iNow, budget) == iNow <= budget

budgetZeroUnlimited(iNow, budget) == budget = 0 \/ iNow < budget

\* conductIterativeResearch: for (let i = 0; i < budget; i++)
budgetLeft(iNow, budget) == iNow < budget

\* no refinement cycle is started beyond what any budget of the model allows
\* (keeps the counters of the model finite)
CallsBounded == calls.evaluate <= MaxBudget

\* a loop that never takes the evaluator's empty list as "complete"
researchCompleteNever(additionalQueries) == FALSE

\* conductIterativeResearch: "Exit if research is complete"
researchComplete(additionalQueries) == additionalQueries = <<>>

\* an initial batch that is the planner's list alone in both definitions
initialBatchPlannerOnly(queries) == queries

\* a first definition that puts the topic last
initialBatchTopicLast(queries) ==
    IF cfg.definition = "first" THEN queries \o <<topic>> ELSE queries

\* generateInitialQueries: the first definition puts the topic first, the
\* second takes the planner's list as it is
initialBatch(queries) ==
    IF cfg.definition = "first" THEN <<topic>> \o queries ELSE queries

\* a batch that is never limited
capQueriesNever(queries) == queries

\* the part of generateInitialQueries / the loop body that limits a batch
capQueries(queries) ==
    IF cfg.maxQueries > 0 THEN Slice(queries, cfg.maxQueries) ELSE queries

\* a history that takes a query once only
pushQueriesUnseen(history, queriesToUse) ==
    history \o SelectSeq(queriesToUse,
                         LAMBDA q : \A k \in DOMAIN history : history[k] # q)

\* a history that keeps the latest batch only
pushQueriesReplacing(history, queriesToUse) == queriesToUse

\* allQueries.push(...queriesToUse)
pushQueries(history, queriesToUse) == history \o queriesToUse

\* performSearch(queries) up to its await: one task per query
StartSearch(queries, stage, c) ==
    /\ tasks' = [k \in DOMAIN queries |-> newTask(queries[k])]
    /\ searchResult' = [kind |-> "pending"]
    /\ pc' = stage
    /\ calls' = [Bump(c, {"performSearch"}) EXCEPT !.provider =
                    @ + Cardinality({k \in DOMAIN queries :
                                        ~loadFromCache(cacheQuery(queries[k])).hit})]

\* the top of the refinement loop with counter iNow and results res:
\* either the evaluator is asked, or the loop ends and filtering begins
\* (processSearchResults, then filterResults' first model call)
LoopTop(iNow, res, c) ==
    /\ i' = iNow
    /\ results' = res
    /\ IF budgetLeft(iNow, cfg.budget)
       THEN /\ CallsBounded
            /\ pc' = "eval_text"
            /\ calls' = Bump(c, {"evaluate", "text"})
            /\ UNCHANGED processedResults
       ELSE /\ pc' = "filter_text"
            /\ calls' = Bump(c, {"text"})
            /\ processedResults' = dedup(res)

\* runResearch(topic) up to its first await
RunResearch ==
    /\ pc = "idle"
    /\ \E t \in Topics : topic' = t
    /\ pc' = IF cfg.interactive THEN "clarify_text" ELSE "plan_text"
    /\ calls' = Bump(calls, {"text"})
    /\ UNCHANGED <<cfg, i, results, processedResults, allQueries, tasks,
                   searchResult, cache, locks, filtered, currentSpending, outcome,
                   failures, args, ret>>

\* clarifyTopic: the clarification text (first call or follow-up) arrives
ClarifyText ==
    /\ pc \in {"clarify_text", "clarify_followup"}
    /\ \/ /\ IF pc = "clarify_text"
             THEN /\ pc' = "clarify_wait"
                  /\ calls' = Bump(calls, {"wait"})
                  /\ UNCHANGED currentSpending
             ELSE /\ pc' = "clarify_text"
                  /\ calls' = Bump(calls, {"text"})
                  /\ currentSpending' = currentSpending + 1
          /\ UNCHANGED <<outcome, failures>>
       \/ /\ Reject(Failure("text", "clarify", 0))
          /\ UNCHANGED <<calls, currentSpending>>
    /\ UNCHANGED <<cfg, topic, i, results, processedResults, allQueries, tasks,
                   searchResult, cache, locks, filtered, args, ret>>

\* clarifyTopic: the user-input wait resolves
ClarifyInput ==
    /\ pc = "clarify_wait"
    /\ \E userInput \in UserInputs :
          IF userInput = ContinueString \/ userInput = EmptyString
          THEN pc' = "plan_text"
          ELSE pc' = "clarify_followup"
    /\ calls' = Bump(calls, {"text"})
    /\ UNCHANGED <<cfg, topic, i, results, processedResults, allQueries, tasks,
                   searchResult, cache, locks, filtered, currentSpending, outcome, failures,
                   args, ret>>

\* generateResearchQueries: the plan text arrives; the parsing call is issued
PlanText ==
    /\ pc = "plan_text"
    /\ \/ /\ pc' = "plan_parse"
          /\ calls' = Bump(calls, {"structured"})
          /\ UNCHANGED <<outcome, failures>>
       \/ /\ Reject(Failure("text", "planning", 0))
          /\ UNCHANGED calls
    /\ UNCHANGED <<cfg, topic, i, results, processedResults, allQueries, tasks,
                   searchResult, cache, locks, filtered, currentSpending, args, ret>>

\* generateInitialQueries: the parsed plan arrives; the initial search starts
PlanParse ==
    /\ pc = "plan_parse"
    /\ \/ \E queries \in PlannerLists :
             LET initialQueries == capQueries(initialBatch(queries))
             IN  /\ allQueries' = initialQueries
                 /\ StartSearch(initialQueries, "initial_search", calls)
                 /\ UNCHANGED <<outcome, failures>>
       \/ /\ Reject(Failure("structured", "planning", 0))
          /\ UNCHANGED <<calls, allQueries, tasks, searchResult>>
    /\ UNCHANGED <<cfg, topic, i, results, processedResults, cache, locks,
                   filtered, currentSpending, args, ret>>

\* a task t of the performSearch call settles as `task`; when that makes
\* Promise.all reject while runResearch still awaits it, runResearch rejects
SettleTask(t, task, f) ==
    /\ tasks' = [tasks EXCEPT ![t] = task]
    /\ IF task.st = "failed"
       THEN /\ failures' = failures \cup {f}
            /\ IF Searching /\ awaitAll(TaskStates(tasks')) = "rejected"
               THEN /\ searchResult' = [kind |-> "rejected", error |-> f]
                    /\ pc' = "failed"
                    /\ outcome' = [kind |-> "rejected", error |-> f]
               ELSE UNCHANGED <<searchResult, pc, outcome>>
       ELSE UNCHANGED <<searchResult, pc, outcome, failures>>

\* how many tasks of the call in flight resolved after awaiting webSearch
SettledSoFar == Cardinality({k \in DOMAIN tasks : tasks[k].settled > 0})

\* the task's webSearch returned `out`: saveToCache, then the task resolves
\* (an exception of saveToCache rejects the task)
FinishTask(t, task, out) ==
    \E w \in WriteOutcomes :
        LET saved == saveToCache(cacheQuery(task.query), out, w)
        IN  /\ cache' = saved.cache
            /\ locks' = saved.locks
            /\ IF saved.threw
               THEN SettleTask(t, [task EXCEPT !.st = "failed"],
                               Failure("cache", "search", t))
               ELSE SettleTask(t, [task EXCEPT !.st = "done", !.out = out,
                                               !.settled = SettledSoFar + 1],
                               <<>>)

\* webSearch of task t: searchOnExa answers; the summaries are requested
ProviderReturn(t) ==
    /\ tasks[t].st = "searching"
    /\ \E raw \in ProviderResponses :
          LET info == resultInfoOf(raw)
          IN  IF info = <<>>
              THEN /\ FinishTask(t, [tasks[t] EXCEPT !.raw = raw], <<>>)
                   /\ UNCHANGED calls
              ELSE /\ SettleTask(t, [tasks[t] EXCEPT !.st = "summarizing",
                                                     !.raw = raw,
                                                     !.info = info], <<>>)
                   /\ calls' = [calls EXCEPT !.summarize = @ + Len(info)]
                   /\ UNCHANGED <<cache, locks>>
    /\ UNCHANGED <<cfg, topic, i, results, processedResults, allQueries,
                   filtered, currentSpending, args, ret>>

\* webSearch of task t: searchOnExa throws
ProviderFail(t) ==
    /\ tasks[t].st = "searching"
    /\ SettleTask(t, [tasks[t] EXCEPT !.st = "failed"],
                  Failure("provider", "search", t))
    /\ UNCHANGED <<cfg, topic, i, results, processedResults, allQueries, cache,
                   locks, filtered, currentSpending, calls, args, ret>>

\* _summarize_content_async of document j of task t returns its text
SummarizeReturn(t, j) ==
    /\ tasks[t].st = "summarizing"
    /\ j \in DOMAIN tasks[t].info
    /\ j \notin DOMAIN tasks[t].sums
    /\ LET sums == (j :> SummaryOf(tasks[t].info[j].content)) @@ tasks[t].sums
       IN  IF DOMAIN sums = DOMAIN tasks[t].info
           THEN FinishTask(t, [tasks[t] EXCEPT !.sums = sums],
                           formattedResults(tasks[t].info, sums))
           ELSE /\ SettleTask(t, [tasks[t] EXCEPT !.sums = sums], <<>>)
                /\ UNCHANGED <<cache, locks>>
    /\ UNCHANGED <<cfg, topic, i, results, processedResults, allQueries,
                   filtered, currentSpending, calls, args, ret>>

\* a failing summary after which the task stores what it has so far
SummarizeFailSaving(t, j) ==
    /\ tasks[t].st = "summarizing"
    /\ j \in DOMAIN tasks[t].info
    /\ j \notin DOMAIN tasks[t].sums
    /\ SettleTask(t, [tasks[t] EXCEPT !.st = "failed"],
                  Failure("summarize", "search", t))
    /\ cache' = IF cfg.useCache
                THEN (getCachePath(tasks[t].query) :> JsonEntry(<<>>)) @@ cache
                ELSE cache
    /\ UNCHANGED <<cfg, topic, i, results, processedResults, allQueries,
                   locks, filtered, currentSpending, calls, args, ret>>

\* _summarize_content_async of document j of task t throws: nothing catches
\* it, so Promise.all of the summaries, webSearch and the task reject
SummarizeFail(t, j) ==
    /\ tasks[t].st = "summarizing"
    /\ j \in DOMAIN tasks[t].info
    /\ j \notin DOMAIN tasks[t].sums
    /\ SettleTask(t, [tasks[t] EXCEPT !.st = "failed"],
                  Failure("summarize", "search", t))
    /\ UNCHANGED <<cfg, topic, i, results, processedResults, allQueries, cache,
                   locks, filtered, currentSpending, calls, args, ret>>

\* performSearch after Promise.all fulfilled, and what runResearch /
\* conductIterativeResearch do with its result up to their next await
\* (combinedResults.add(results) throws a TypeError on a cached object whose
\* results is undefined: "...other.results" is not iterable)
PerformSearchReturn ==
    /\ Searching
    /\ awaitAll(TaskStates(tasks)) = "fulfilled"
    /\ IF \E t \in DOMAIN tasks : ~tasks[t].iterable
       THEN LET t == CHOOSE k \in DOMAIN tasks :
                        /\ ~tasks[k].iterable
                        /\ \A m \in 1..(k - 1) : tasks[m].iterable
                f == Failure("combine", "search", t)
            IN  /\ Reject(f)
                /\ searchResult' = [kind |-> "rejected", error |-> f]
                /\ UNCHANGED <<i, results, processedResults, allQueries, calls,
                               tasks>>
       ELSE /\ LET combinedResultsDedup == combineResults(tasks)
               IN  IF pc = "initial_search"
                   THEN /\ LoopTop(0, combinedResultsDedup, calls)
                        /\ UNCHANGED allQueries
                   ELSE /\ LoopTop(i + 1, add(results, combinedResultsDedup).ret,
                                   calls)
                        /\ allQueries' =
                              pushQueries(allQueries,
                                          [k \in DOMAIN tasks |-> tasks[k].query])
            /\ tasks' = <<>>
            /\ searchResult' = [kind |-> "fulfilled", value |-> combineResults(tasks)]
            /\ UNCHANGED <<outcome, failures>>
    /\ UNCHANGED <<cfg, topic, cache, locks, filtered, currentSpending, args, ret>>

\* evaluateResearchCompleteness: the evaluation text arrives
EvalText ==
    /\ pc = "eval_text"
    /\ \/ /\ pc' = "eval_parse"
          /\ calls' = Bump(calls, {"structured"})
          /\ UNCHANGED <<outcome, failures>>
       \/ /\ Reject(Failure("text", "evaluation", 0))
          /\ UNCHANGED calls
    /\ UNCHANGED <<cfg, topic, i, results, processedResults, allQueries, tasks,
                   searchResult, cache, locks, filtered, currentSpending, args, ret>>

\* the parsed evaluation arrives: break, or the next refinement search starts
EvalParse ==
    /\ pc = "eval_parse"
    /\ \/ \E additionalQueries \in EvaluatorLists :
             /\ IF researchComplete(additionalQueries)
                THEN /\ pc' = "filter_text"
                     /\ calls' = Bump(calls, {"text"})
                     /\ processedResults' = dedup(results)
                     /\ UNCHANGED <<tasks, searchResult>>
                ELSE /\ StartSearch(capQueries(additionalQueries),
                                    "refine_search", calls)
                     /\ UNCHANGED processedResults
             /\ UNCHANGED <<outcome, failures>>
       \/ /\ Reject(Failure("structured", "evaluation", 0))
          /\ UNCHANGED <<calls, processedResults, tasks, searchResult>>
    /\ UNCHANGED <<cfg, topic, i, results, allQueries, cache, locks, filtered,
                   currentSpending, args, ret>>

\* filterResults: the ranking text arrives
FilterText ==
    /\ pc = "filter_text"
    /\ \/ /\ pc' = "filter_parse"
          /\ calls' = Bump(calls, {"structured"})
          /\ UNCHANGED <<outcome, failures>>
       \/ /\ Reject(Failure("text", "filtering", 0))
          /\ UNCHANGED calls
    /\ UNCHANGED <<cfg, topic, i, results, processedResults, allQueries, tasks,
                   searchResult, cache, locks, filtered, currentSpending, args, ret>>

\* filterResults: the parsed index list arrives; the answer is requested
FilterParse ==
    /\ pc = "filter_parse"
    /\ \/ \E sources \in RankingLists :
             /\ filtered' = selectSources(processedResults, sources, cfg.maxSources)
             /\ pc' = "answer"
             /\ calls' = Bump(calls, {"answer", "text"})
             /\ UNCHANGED <<outcome, failures>>
       \/ /\ Reject(Failure("structured", "filtering", 0))
          /\ UNCHANGED <<calls, filtered>>
    /\ UNCHANGED <<cfg, topic, i, results, processedResults, allQueries, tasks,
                   searchResult, cache, locks, currentSpending, args, ret>>

\* generateResearchAnswer returns: the report, or the feedback loop's wait
Answer ==
    /\ pc = "answer"
    /\ \/ /\ IF cfg.interactive /\ currentSpending < cfg.budget
             THEN /\ pc' = "feedback_wait"
                  /\ calls' = Bump(calls, {"wait"})
                  /\ UNCHANGED outcome
             ELSE /\ pc' = "done"
                  /\ outcome' = [kind |-> "report", answer |-> AnswerText]
                  /\ UNCHANGED calls
          /\ UNCHANGED failures
       \/ /\ Reject(Failure("text", "answer", 0))
          /\ UNCHANGED calls
    /\ UNCHANGED <<cfg, topic, i, results, processedResults, allQueries, tasks,
                   searchResult, cache, locks, filtered, currentSpending, args, ret>>

\* a feedback test that takes only "yes" for an acceptance
acceptedOnlyYes(userFeedback) == userFeedback = YesString

\* userFeedback.toLowerCase() === "yes" || !userFeedback || userFeedback === ""
accepted(userFeedback) == userFeedback = YesString \/ userFeedback = EmptyString

\* the feedback loop: the user-input wait resolves
Feedback ==
    /\ pc = "feedback_wait"
    /\ \E userFeedback \in UserInputs :
          IF accepted(userFeedback)
          THEN /\ pc' = "done"
               /\ outcome' = [kind |-> "report", answer |-> AnswerText]
               /\ UNCHANGED <<topic, currentSpending, calls>>
          ELSE /\ pc' = "answer"
               /\ topic' = topic \o AnswerText \o userFeedback
               /\ currentSpending' = currentSpending + 1
               /\ calls' = Bump(calls, {"answer", "text"})
               /\ UNCHANGED outcome
    /\ UNCHANGED <<cfg, i, results, processedResults, allQueries, tasks,
                   searchResult, cache, locks, filtered, failures, args, ret>>

Next ==
    \/ RunResearch
    \/ ClarifyText
    \/ ClarifyInput
    \/ PlanText
    \/ PlanParse
    \/ \E t \in DOMAIN tasks : ProviderReturn(t)
    \/ \E t \in DOMAIN tasks : ProviderFail(t)
    \/ \E t \in DOMAIN tasks : \E j \in 1..MaxDocs : SummarizeReturn(t, j)
    \/ \E t \in DOMAIN tasks : \E j \in 1..MaxDocs : SummarizeFail(t, j)
    \/ PerformSearchReturn
    \/ EvalText
    \/ EvalParse
    \/ FilterText
    \/ FilterParse
    \/ Answer
    \/ Feedback

Spec == Init /\ [][Next]_vars

\* every pending collaborator call eventually completes or fails
LiveSpec == Init /\ [][Next]_vars /\ WF_vars(Next)

(***************************************************************************)
(* Helpers of the properties                                               *)
(***************************************************************************)
\* position of the earliest document of X with link l
FirstIndex(X, l) ==
    CHOOSE k \in DOMAIN X : X[k].link = l /\ \A m \in 1..(k - 1) : X[m].link # l

\* the in-range members of an index list, in the list's order
InRangeOf(s, k) == SelectSeq(s, LAMBDA x : x \in 1..k)

\* the documents the 1-based indices idx enumerate
DocsAt(res, idx) == [j \in DOMAIN idx |-> res[idx[j]]]

\* s can be obtained from t by deleting elements
RECURSIVE IsSubseq(_, _)
IsSubseq(s, t) ==
    IF s = <<>> THEN TRUE
    ELSE IF t = <<>> THEN FALSE
    ELSE IF Head(s) = Head(t) THEN IsSubseq(Tail(s), Tail(t))
    ELSE IsSubseq(s, Tail(t))

(***************************************************************************)
(* C6: every document of filterResults' filteredResults is the document at *)
(* some returned index within [1, k]; out-of-range indices contribute      *)
(* nothing and the call still returns; the documents come in the relative  *)
(* order of their indices in the ranking model's list.                     *)
(***************************************************************************)
C6_FilterSelectsValidInOrder ==
    ret.op = "filter" =>
        /\ IsSubseq(ret.out.filteredResults,
                    DocsAt(args.results,
                           InRangeOf(args.sources, Len(args.results))))
        /\ \A j \in DOMAIN ret.out.filteredResults :
              \E n \in DOMAIN args.sources :
                  /\ args.sources[n] \in 1..Len(args.results)
                  /\ ret.out.filteredResults[j] = args.results[args.sources[n]]

C6_Witness ==
    /\ ret.op = "filter"
    /\ args.maxSources = 0
    /\ Len(args.results) = 3
    /\ args.sources = <<0, 3, 4, 1>>
    /\ ret.out.filteredResults = <<args.results[3], args.results[1]>>

(***************************************************************************)
(* C7 as stated: with maxSources > 0 the cap is applied to the indices     *)
(* that remain after the out-of-range ones were dropped, so                *)
(* filteredResults is the documents of the first min(maxSources, v) valid  *)
(* indices.                                                                *)
(***************************************************************************)
C7_CapAfterDropping ==
    (ret.op = "filter" /\ args.maxSources > 0) =>
        ret.out.filteredResults =
            DocsAt(args.results,
                   Slice(InRangeOf(args.sources, Len(args.results)),
                         args.maxSources))

(***************************************************************************)
(* C7 amended: with maxSources > 0 the cap is applied to the model's list  *)
(* first and the out-of-range indices are dropped afterwards, so           *)
(* filteredResults is the documents of the in-range indices among the      *)
(* first min(maxSources, n) entries of the n-entry list.                   *)
(***************************************************************************)
C7_CapBeforeDropping ==
    (ret.op = "filter" /\ args.maxSources > 0) =>
        /\ ret.out.filteredResults =
              DocsAt(args.results,
                     InRangeOf(Slice(args.sources, args.maxSources),
                               Len(args.results)))
        /\ Len(ret.out.filteredResults) <= args.maxSources

C7_Witness ==
    /\ ret.op = "filter"
    /\ args.maxSources = 2
    /\ Len(args.results) = 3
    /\ args.sources = <<0, 1, 4, 3>>
    /\ ret.out.filteredResults = <<args.results[1]>>

(***************************************************************************)
(* C8: X.dedup() holds exactly one document per distinct link of X, that   *)
(* document is the earliest occurrence in X, the survivors keep their      *)
(* relative order, and dedup is idempotent.                                *)
(***************************************************************************)
C8_DedupFirstWinsIdempotent ==
    ret.op = "dedup" =>
        LET X == args.X
            Y == ret.once
        IN  /\ \A a, b \in DOMAIN Y : Y[a].link = Y[b].link => a = b
            /\ {Y[a].link : a \in DOMAIN Y} = {X[a].link : a \in DOMAIN X}
            /\ \A a \in DOMAIN Y : Y[a] = X[FirstIndex(X, Y[a].link)]
            /\ \A a, b \in DOMAIN Y :
                  a < b => FirstIndex(X, Y[a].link) < FirstIndex(X, Y[b].link)
            /\ ret.twice = Y

C8_Witness ==
    /\ ret.op = "dedup"
    /\ Len(args.X) = 3
    /\ args.X[1].link = args.X[3].link
    /\ args.X[1] # args.X[3]
    /\ args.X[2].link # args.X[1].link
    /\ ret.once = <<args.X[1], args.X[2]>>

(***************************************************************************)
(* C9: add is pure concatenation: A.add(B).add(C) and A.add(B.add(C)) are  *)
(* both A's documents, then B's, then C's, and add leaves its operands     *)
(* unchanged.                                                              *)
(***************************************************************************)
C9_AddConcatenatesAssociative ==
    ret.op = "add" =>
        /\ ret.left = args.A \o args.B \o args.C
        /\ ret.right = ret.left
        /\ ret.A = args.A /\ ret.B = args.B /\ ret.C = args.C

C9_Witness ==
    /\ ret.op = "add"
    /\ Len(args.A) = 2 /\ Len(args.B) = 1 /\ Len(args.C) = 1
    /\ args.A[1] # args.A[2] /\ args.B # args.C /\ args.B[1] # args.A[2]
    /\ Len(ret.left) = 4

(***************************************************************************)
(* C1: for every budget N and every evaluator behaviour one runResearch    *)
(* call invokes the evaluator at most N times and performSearch at most    *)
(* N + 1 times; with N = 0 the evaluator is never invoked.                 *)
(***************************************************************************)
C1_BudgetBoundsCycles ==
    /\ calls.evaluate <= cfg.budget
    /\ calls.performSearch <= cfg.budget + 1
    /\ i <= cfg.budget
    /\ cfg.budget = 0 => calls.evaluate = 0

C1_Witness ==
    /\ pc = "done"
    /\ cfg.budget = MaxBudget
    /\ calls.evaluate = MaxBudget
    /\ calls.performSearch = MaxBudget + 1

(***************************************************************************)
(* C2: when every collaborator call eventually completes or fails, every   *)
(* runResearch call eventually returns a report or throws, in interactive  *)
(* and non-interactive mode.                                               *)
(***************************************************************************)
C2_RunResearchTerminates ==
    <>(pc \in {"done", "failed"} /\ outcome.kind \in {"report", "rejected"})

C2_Witness ==
    /\ pc = "done"
    /\ outcome.kind = "report"
    /\ cfg.interactive
    /\ cfg.budget = MaxBudget
    /\ calls.evaluate = MaxBudget
    /\ calls.wait = 2

(***************************************************************************)
(* C3: when a search-provider call or a structured-extraction call fails   *)
(* at any stage of runResearch, runResearch rejects with that error, no    *)
(* report is returned, the answer synthesizer is not invoked afterwards    *)
(* and the failed call is not issued again.                                *)
(***************************************************************************)
FatalFailures == {f \in failures : f.call \in {"provider", "structured"}}

C3_FatalFailureRejects ==
    /\ [](FatalFailures # {} =>
            /\ pc = "failed"
            /\ outcome.kind = "rejected"
            /\ outcome.error \in failures)
    /\ [][/\ (Running /\ FatalFailures' # FatalFailures) =>
                /\ outcome'.kind = "rejected"
                /\ FatalFailures' = FatalFailures \cup {outcome'.error}
          /\ pc = "failed" =>
                /\ outcome' = outcome
                /\ calls'.answer = calls.answer
                /\ calls'.provider = calls.provider
                /\ calls'.structured = calls.structured
                /\ calls'.performSearch = calls.performSearch]_vars

\* a provider failure in a refinement search whose sibling query succeeded
C3_Witness ==
    /\ pc = "failed"
    /\ outcome.kind = "rejected"
    /\ outcome.error.call = "provider"
    /\ outcome.error.search = 2
    /\ \E t \in DOMAIN tasks : tasks[t].st = "done" /\ tasks[t].out # <<>>

(***************************************************************************)
(* C4: performSearch is all-or-nothing over its queries: when the provider *)
(* call of any query of the batch fails, the performSearch call fails with *)
(* the error of a failed query - that failure when it is the first - and   *)
(* never returns a result set built from the queries that succeeded.       *)
(***************************************************************************)
ProviderFailed(ts) ==
    {t \in DOMAIN ts : ts[t].st = "failed"
                       /\ Failure("provider", "search", t) \in failures}

C4_SearchAllOrNothing ==
    /\ [](ProviderFailed(tasks) # {} =>
            /\ searchResult.kind = "rejected"
            /\ searchResult.error.search = calls.performSearch
            /\ tasks[searchResult.error.task].st = "failed")
    /\ [][/\ (searchResult.kind = "pending"
              /\ ProviderFailed(tasks') # ProviderFailed(tasks)) =>
                /\ searchResult'.kind = "rejected"
                /\ searchResult'.error.call = "provider"
                /\ ProviderFailed(tasks') = {searchResult'.error.task}
          /\ searchResult.kind = "rejected" =>
                /\ searchResult' = searchResult
                /\ results' = results]_vars

\* the first query's fetch and summaries succeeded, the second query failed
C4_Witness ==
    /\ Len(tasks) = 2
    /\ tasks[1].st = "done"
    /\ tasks[1].out # <<>>
    /\ ProviderFailed(tasks) = {2}
    /\ searchResult.kind = "rejected"

(***************************************************************************)
(* C5 as stated: a summarization failure for one document never aborts     *)
(* the search: performSearch is never rejected on account of it.           *)
(***************************************************************************)
C5_SummaryFailureNeverAborts ==
    \A f \in failures :
        f.call = "summarize" =>
            /\ tasks[f.task].st # "failed"
            /\ ~(searchResult.kind = "rejected" /\ searchResult.error = f)

(***************************************************************************)
(* C10: every query string handed to the search provider has at most 400   *)
(* characters: a longer query is sent as exactly its first 400 characters, *)
(* a query of at most 400 characters is sent unchanged, and an over-long   *)
(* query is searched, not rejected.                                        *)
(***************************************************************************)
C10_QueryTruncated ==
    /\ \A t \in DOMAIN tasks :
          ~tasks[t].cached =>
             /\ Len(tasks[t].sent) = Min(Len(tasks[t].query), QueryLimit)
             /\ \A k \in DOMAIN tasks[t].sent : tasks[t].sent[k] = tasks[t].query[k]
    /\ \A t \in DOMAIN tasks :
          tasks[t].st = "failed" =>
             \E f \in failures :
                 f.task = t /\ f.call \in {"provider", "summarize", "cache"}

C10_Witness ==
    \E t \in DOMAIN tasks :
        /\ Len(tasks[t].query) > QueryLimit
        /\ Len(tasks[t].sent) = QueryLimit
        /\ tasks[t].st = "done"
        /\ tasks[t].out # <<>>

(***************************************************************************)
(* C11: with caching enabled, saveToCache(q, R) followed by                *)
(* loadFromCache(q) - nothing written to q's key in between - returns the  *)
(* documents of R (link, title, content, summary) in R's order, and        *)
(* loadFromCache of a query for which nothing is stored returns null.      *)
(***************************************************************************)
C11_CacheRoundTrip ==
    ret.op = "load" =>
        /\ (/\ cfg.useCache
            /\ ret.before.op = "save"
            /\ ~ret.before.threw
            /\ args.before.query = args.query) =>
                /\ ret.value.hit
                /\ ret.value.iterable
                /\ ret.value.results = args.before.results
        /\ getCachePath(args.query) \notin DOMAIN cache => ~ret.value.hit

\* a stored set holding a document with and one without a summary, over a
\* key that held a left-over lock file and an entry JSON.parse rejects
C11_Witness ==
    /\ ret.op = "load"
    /\ ret.before.op = "save"
    /\ args.before.query = args.query
    /\ getLockPath(getCachePath(args.query)) \in args.before.locks
    /\ getCachePath(args.query) \in DOMAIN args.before.cache
    /\ args.before.cache[getCachePath(args.query)] = UnparsableEntry
    /\ Len(args.before.results) = 2
    /\ args.before.results[1].filteredRawContent = Absent
    /\ args.before.results[2].filteredRawContent # Absent
    /\ ret.value.hit
    /\ ret.value.results = args.before.results

(***************************************************************************)
(* C13: with caching enabled, after a saveToCache call of a single writer  *)
(* has returned or thrown - the entry write failing included - no lock     *)
(* file exists for the query's key.                                        *)
(***************************************************************************)
C13_LockReleasedOnEveryExit ==
    (ret.op = "save" /\ cfg.useCache) =>
        getLockPath(getCachePath(args.query)) \notin locks

C13_Witness ==
    /\ ret.op = "save"
    /\ cfg.useCache
    /\ ret.threw
    /\ getCachePath(args.query) \notin DOMAIN args.cache
    /\ getCachePath(args.query) \in DOMAIN cache
    /\ cache[getCachePath(args.query)] = UnparsableEntry
    /\ getLockPath(getCachePath(args.query)) \notin locks

(***************************************************************************)
(* Helpers of the properties about performSearch's cache use               *)
(***************************************************************************)
\* a performSearch call has just created its tasks
NewBatch == searchResult.kind # "pending" /\ searchResult'.kind = "pending"

EntryPathOf(task) == getCachePath(task.query)

LockPathOf(task) == getLockPath(getCachePath(task.query))

(***************************************************************************)
(* C12: a query is served from the cache only when an entry file exists    *)
(* for exactly that query string and no lock file exists for its key;      *)
(* whenever the lock file is there, the lookup is a miss and performSearch *)
(* asks the provider.                                                      *)
(***************************************************************************)
C12_LockedKeyIsMiss ==
    [][NewBatch =>
          /\ \A t \in DOMAIN tasks' :
                /\ tasks'[t].cached =>
                      /\ cfg.useCache
                      /\ EntryPathOf(tasks'[t]) \in DOMAIN cache
                      /\ LockPathOf(tasks'[t]) \notin locks
                /\ LockPathOf(tasks'[t]) \in locks =>
                      /\ ~tasks'[t].cached
                      /\ tasks'[t].st = "searching"
          /\ calls'.provider =
                calls.provider
                + Cardinality({t \in DOMAIN tasks' : ~tasks'[t].cached})]_vars

\* the topic's entry is complete but under a left-over lock file: fetched
C12_Witness ==
    /\ cfg.useCache
    /\ pc = "initial_search"
    /\ EntryPathOf(tasks[1]) \in DOMAIN cache
    /\ cache[EntryPathOf(tasks[1])].kind = "json"
    /\ LockPathOf(tasks[1]) \in locks
    /\ ~tasks[1].cached
    /\ tasks[1].st = "searching"
    /\ calls.provider = Len(tasks)

(***************************************************************************)
(* C14 as stated: a corrupt or unparsable cache entry is never fatal: it   *)
(* is never handed out as a cached result and no runResearch call fails    *)
(* on account of it.                                                       *)
(***************************************************************************)
C14_CorruptEntryNeverFatal ==
    /\ \A t \in DOMAIN tasks : tasks[t].cached => tasks[t].iterable
    /\ \A f \in failures : f.call # "combine"

(***************************************************************************)
(* C15: with caching disabled no lookup hits and no save writes: the       *)
(* entry files and lock files stay as they are and every query of every    *)
(* performSearch call is sent to the provider.                             *)
(***************************************************************************)
C15_DisabledCacheIsInert ==
    [][~cfg.useCache =>
          /\ cache' = cache
          /\ locks' = locks
          /\ \A t \in DOMAIN tasks' : ~tasks'[t].cached
          /\ NewBatch => calls'.provider = calls.provider + Len(tasks')]_vars

\* an entry for the topic is there and is neither read nor overwritten
C15_Witness ==
    /\ ~cfg.useCache
    /\ pc = "done"
    /\ DOMAIN cache = {getCachePath(topic)}
    /\ cache[getCachePath(topic)] = JsonEntry(StoredResults)
    /\ locks = {}
    /\ Len(allQueries) = 2
    /\ allQueries[1] = topic
    /\ calls.performSearch = 2
    /\ calls.provider = 2
    /\ results # StoredResults

(***************************************************************************)
(* C16 as stated: when the initial query batch is empty the research loop  *)
(* ends at once with an empty result set: no provider call and no          *)
(* evaluator call is made.                                                 *)
(***************************************************************************)
C16_EmptyBatchEndsLoop ==
    (allQueries = <<>> /\ pc \in {"initial_search", "eval_text", "eval_parse",
                                  "refine_search", "filter_text"}) =>
        /\ calls.provider = 0
        /\ calls.evaluate = 0
        /\ results = <<>>

(***************************************************************************)
(* C17: once the evaluator returns an empty query list the loop ends and   *)
(* filtering starts, whatever budget remains: the results and the query    *)
(* history of that moment are the loop's output, and the call makes no     *)
(* further evaluator call and no further performSearch call.               *)
(***************************************************************************)
AfterLoop == pc \in {"filter_text", "filter_parse", "answer", "feedback_wait", "done"}

C17_EmptyEvaluationEndsLoop ==
    [][/\ (pc = "eval_parse" /\ pc' = "refine_search") => tasks' # <<>>
       /\ (pc = "eval_parse" /\ pc' = "filter_text") =>
             /\ results' = results
             /\ allQueries' = allQueries
             /\ processedResults' = dedup(results)
             /\ calls'.evaluate = calls.evaluate
             /\ calls'.performSearch = calls.performSearch
       /\ AfterLoop =>
             /\ results' = results
             /\ allQueries' = allQueries
             /\ calls'.evaluate = calls.evaluate
             /\ calls'.performSearch = calls.performSearch
             /\ calls'.provider = calls.provider]_vars

\* the first evaluation was empty with the whole budget left
C17_Witness ==
    /\ pc = "done"
    /\ cfg.budget = MaxBudget
    /\ i = 0
    /\ calls.evaluate = 1
    /\ calls.performSearch = 1
    /\ results # <<>>

(***************************************************************************)
(* C18 as stated: the refinement loop and the feedback loop draw from one  *)
(* budget counter: refinement cycles plus feedback re-syntheses never      *)
(* exceed the budget, so feedback is asked for only while the cycles and   *)
(* re-syntheses so far leave budget.                                       *)
(***************************************************************************)
Resyntheses == IF calls.answer > 0 THEN calls.answer - 1 ELSE 0

C19_EmptyTextDocumentKept ==
    \A t \in DOMAIN tasks :
        (tasks[t].st = "done" /\ ~tasks[t].cached) =>
            /\ Len(tasks[t].out) = Len(tasks[t].raw)
            /\ \A j \in DOMAIN tasks[t].raw :
                  /\ tasks[t].out[j].link = tasks[t].raw[j].link
                  /\ tasks[t].raw[j].content = Absent =>
                        tasks[t].out[j].filteredRawContent = Absent

(***************************************************************************)
(* C20 as stated: under the default configuration, with the initial batch  *)
(* [topic, DetailQuery] (generateInitialQueries' return value) and a       *)
(* provider that answered the two queries with 3 documents in total        *)
(* carrying 2 distinct links, both queries are searched and the initial    *)
(* performSearch returns exactly 2 documents; when the evaluator then      *)
(* returns [] no refinement cycle runs, and when the ranking model returns *)
(* [2, 1] filteredResults is those 2 documents in reversed order.          *)
(***************************************************************************)
ScenarioSearched ==
    /\ cfg = DefaultConfig
    /\ pc = "initial_search"
    /\ allQueries = <<topic, DetailQuery>>
    /\ Len(tasks) = 2
    /\ \A t \in DOMAIN tasks : tasks[t].st = "done" /\ ~tasks[t].cached
    /\ Len(tasks[1].raw) + Len(tasks[2].raw) = 3
    /\ Cardinality(UNION {{tasks[t].raw[j].link : j \in DOMAIN tasks[t].raw} :
                              t \in DOMAIN tasks}) = 2

ScenarioRun ==
    /\ cfg = DefaultConfig
    /\ allQueries = <<topic, DetailQuery>>
    /\ i = 0

C20_EndToEndScenario ==
    [][/\ (ScenarioSearched /\ pc' # pc) =>
             /\ tasks[1].query = topic /\ tasks[2].query = DetailQuery
             /\ calls.provider = 2
             /\ searchResult'.kind = "fulfilled"
             /\ Len(searchResult'.value) = 2
             /\ results' = searchResult'.value
       /\ (ScenarioRun /\ pc = "eval_parse" /\ pc' = "filter_text") =>
             /\ i' = 0
             /\ calls'.performSearch = 1
             /\ allQueries' = allQueries
       /\ (ScenarioRun /\ pc = "filter_parse" /\ pc' = "answer"
              /\ Len(processedResults) = 2
              /\ filtered'.limitedSources = <<2, 1>>) =>
             filtered'.filteredResults =
                   <<processedResults[2], processedResults[1]>>]_vars

(***************************************************************************)
(* C21 as stated: whenever the evaluator is called, no two documents of    *)
(* the accumulated results handed to it share a link.                      *)
(***************************************************************************)
NoSharedLink(res) ==
    \A a, b \in DOMAIN res : res[a].link = res[b].link => a = b

C21_AccumulatedResultsDeduplicated ==
    pc \in {"eval_text", "eval_parse"} => NoSharedLink(results)

(***************************************************************************)
(* C22: the query history is the initial batch followed by every executed  *)
(* follow-up batch in execution order: the plan sets it to the initial     *)
(* batch, the return of a refinement search appends that search's batch,   *)
(* and no other step changes it (so the evaluator and the loop's caller    *)
(* see exactly that sequence, every searched query included).              *)
(***************************************************************************)
BatchOf(ts) == [k \in DOMAIN ts |-> ts[k].query]

C22_HistoryIsEveryBatchInOrder ==
    [][/\ (pc = "plan_parse" /\ pc' = "initial_search") =>
             allQueries' = BatchOf(tasks')
       /\ (pc = "refine_search" /\ pc' \in {"eval_text", "filter_text"}) =>
             /\ allQueries' = allQueries \o BatchOf(tasks)
             /\ Len(allQueries') = Len(allQueries) + Len(tasks)
             /\ \A k \in DOMAIN tasks :
                   allQueries'[Len(allQueries) + k] = tasks[k].query
       /\ ~(\/ pc = "plan_parse" /\ pc' = "initial_search"
            \/ pc = "refine_search" /\ pc' \in {"eval_text", "filter_text"}) =>
             allQueries' = allQueries]_vars

C22_Witness ==
    /\ pc = "eval_text"
    /\ i = 1
    /\ calls.performSearch = 2
    /\ calls.evaluate = 2
    /\ Len(allQueries) = 4
    /\ allQueries[1] = topic
    /\ allQueries[3] = ExactQuery
    /\ allQueries[4] = LongQuery

(***************************************************************************)
(* C23: with maxQueries = m > 0 every batch handed to performSearch has at *)
(* most m queries and is the prefix of length min(m, n) of the n-element   *)
(* list it was derived from (the topic followed by the planner's list, or  *)
(* the evaluator's list).                                                  *)
(***************************************************************************)
IsCappedPrefix(batch, list, m) ==
    /\ Len(batch) = Min(m, Len(list))
    /\ Len(batch) <= m
    /\ \A k \in DOMAIN batch : batch[k] = list[k]

C23_BatchIsCappedPrefix ==
    [][cfg.maxQueries > 0 =>
          /\ (pc = "plan_parse" /\ pc' = "initial_search") =>
                \E queries \in PlannerLists :
                   IsCappedPrefix(BatchOf(tasks'), initialBatch(queries),
                                  cfg.maxQueries)
          /\ (pc = "eval_parse" /\ pc' = "refine_search") =>
                \E additionalQueries \in EvaluatorLists :
                   IsCappedPrefix(BatchOf(tasks'), additionalQueries,
                                  cfg.maxQueries)]_vars

C23_Witness ==
    /\ cfg.maxQueries = 1
    /\ pc = "refine_search"
    /\ BatchOf(tasks) = <<ExactQuery>>
    /\ allQueries = <<topic>>

(***************************************************************************)
(* C24 as stated: the initial batch is the planner's structured query      *)
(* list, in the planner's order, truncated to at most maxQueries entries;  *)
(* it holds no query the planner did not return.                           *)
(***************************************************************************)
IsBatchOf(batch, list, m) ==
    IF m > 0 THEN IsCappedPrefix(batch, list, m) ELSE batch = list

PlannerQueries == UNION {{queries[k] : k \in DOMAIN queries} : queries \in PlannerLists}

C24_InitialBatchIsPlannerList ==
    [][(pc = "plan_parse" /\ pc' = "initial_search") =>
          /\ \E queries \in PlannerLists :
                IsBatchOf(BatchOf(tasks'), queries, cfg.maxQueries)
          /\ \A k \in DOMAIN tasks' : tasks'[k].query \in PlannerQueries]_vars

(***************************************************************************)
(* C24 amended: in the first definition the initial batch is the topic     *)
(* followed by the planner's list, in the planner's order, truncated to at *)
(* most maxQueries entries when maxQueries > 0 (the topic, in first place, *)
(* is the only query the planner did not return); in the second            *)
(* definition it is the planner's list alone, truncated the same way.      *)
(***************************************************************************)
C24_InitialBatchIsTopicThenPlannerList ==
    [][(pc = "plan_parse" /\ pc' = "initial_search") =>
          /\ \E queries \in PlannerLists :
                IsBatchOf(BatchOf(tasks'),
                          IF cfg.definition = "first"
                          THEN <<topic>> \o queries ELSE queries,
                          cfg.maxQueries)
          /\ \A k \in DOMAIN tasks' :
                \/ tasks'[k].query \in PlannerQueries
                \/ cfg.definition = "first" /\ k = 1 /\ tasks'[k].query = topic
          /\ allQueries' = BatchOf(tasks')]_vars

C24_Witness ==
    /\ cfg.definition = "first"
    /\ cfg.maxQueries = 2
    /\ pc = "initial_search"
    /\ BatchOf(tasks) = <<topic, DetailQuery>>
    /\ BatchOf(tasks) \notin PlannerLists

(***************************************************************************)
(* C25: whatever the order in which the tasks of a performSearch call      *)
(* resolve, the call returns the tasks' result sets concatenated in        *)
(* submission order and deduplicated first-wins: one document per link,    *)
(* the one of the earliest-submitted query that returned the link, in the  *)
(* order of the links' first occurrences.                                  *)
(***************************************************************************)
RECURSIVE Concatenated(_, _)
Concatenated(ts, n) ==
    IF n = 0 THEN <<>> ELSE Concatenated(ts, n - 1) \o ts[n].out

C25_MergeInSubmissionOrder ==
    [][(Searching /\ searchResult'.kind = "fulfilled") =>
          LET all == Concatenated(tasks, Len(tasks))
              value == searchResult'.value
          IN  /\ NoSharedLink(value)
              /\ {value[k].link : k \in DOMAIN value}
                    = {all[k].link : k \in DOMAIN all}
              /\ \A k \in DOMAIN value :
                    value[k] = all[FirstIndex(all, value[k].link)]
              /\ \A a, b \in DOMAIN value :
                    a < b => FirstIndex(all, value[a].link)
                               < FirstIndex(all, value[b].link)]_vars

\* both tasks resolved, the later-submitted one first, and the two result
\* sets hold different documents under one link
C25_Witness ==
    /\ Len(tasks) = 2
    /\ \A t \in DOMAIN tasks : tasks[t].st = "done"
    /\ tasks[2].settled = 1
    /\ tasks[1].settled = 2
    /\ \E a \in DOMAIN tasks[1].out : \E b \in DOMAIN tasks[2].out :
          /\ tasks[1].out[a].link = tasks[2].out[b].link
          /\ tasks[1].out[a] # tasks[2].out[b]
    /\ combineResults(tasks) # combineResultsAsResolved(tasks)

(***************************************************************************)
(* C26 as stated: the cache is consulted and written with the truncated    *)
(* query, the string that is sent to the provider: a new task is served    *)
(* from the cache exactly when the entry of its truncated query can be     *)
(* loaded, and every entry or lock file a task writes is the one of its    *)
(* truncated query.                                                        *)
(***************************************************************************)
WrittenPaths ==
    {p \in DOMAIN cache' : p \notin DOMAIN cache \/ cache'[p] # cache[p]}

C26_CacheUsesTruncatedQuery ==
    [][/\ NewBatch =>
             \A t \in DOMAIN tasks' :
                tasks'[t].cached = loadFromCache(truncate(tasks'[t].query)).hit
       /\ \A p \in WrittenPaths :
             \E t \in DOMAIN tasks :
                /\ ~tasks[t].cached
                /\ p = getCachePath(tasks[t].sent)]_vars

(***************************************************************************)
(* C26 amended: the cache is consulted and written with the query as it    *)
(* was handed to performSearch; the truncation to 400 characters happens   *)
(* afterwards, in webSearch, on a miss only. Lookup and write use the same *)
(* string, which is the one sent to the provider only when the query has   *)
(* at most 400 characters.                                                 *)
(***************************************************************************)
C26_CacheUsesQueryAsGiven ==
    [][/\ NewBatch =>
             \A t \in DOMAIN tasks' :
                /\ tasks'[t].cached = loadFromCache(tasks'[t].query).hit
                /\ ~tasks'[t].cached =>
                      tasks'[t].sent = truncate(tasks'[t].query)
       /\ \A p \in WrittenPaths :
             \E t \in DOMAIN tasks :
                /\ ~tasks[t].cached
                /\ p = getCachePath(tasks[t].query)
       /\ \A t \in DOMAIN tasks :
             (t \in DOMAIN tasks' /\ tasks'[t].settled > tasks[t].settled) =>
                \A p \in DOMAIN cache' \ {getCachePath(tasks[t].query)} :
                   p \in DOMAIN cache /\ cache'[p] = cache[p]]_vars

\* an over-long query was fetched and stored under its own key, while the
\* key of the 400 characters sent to the provider holds nothing
C26_Witness ==
    /\ cfg.useCache
    /\ \E t \in DOMAIN tasks :
          /\ tasks[t].query = LongQuery
          /\ tasks[t].st = "done"
          /\ ~tasks[t].cached
          /\ tasks[t].sent = ExactQuery
          /\ getCachePath(LongQuery) \in DOMAIN cache
          /\ cache[getCachePath(LongQuery)] = JsonEntry(tasks[t].out)
          /\ getCachePath(tasks[t].sent) \notin DOMAIN cache

(***************************************************************************)
(* C27 as stated: with several writers racing on one key, the lock file of *)
(* the key exists whenever some writer has begun and not yet finished its  *)
(* entry write, and a loadFromCache running at the same time never returns *)
(* an entry that was being written: what it returns is null or a result    *)
(* set some writer saved in full.                                          *)
(***************************************************************************)
CompleteValues ==
    {loadFrom(TRUE, (getCachePath(EmptyString) :> JsonEntry(res)), {}, EmptyString) :
        res \in {StoredResults, LongResults, ShortResults}}

C27_LockCoversEveryWrite ==
    /\ \A p \in Writers : ret[p].pos = "opened" => LockPathOfCall(p) \in locks
    /\ \A p \in Readers :
          ret[p].pos = "returned" => ret[p].value \in CompleteValues \cup {Null}

(***************************************************************************)
(* C28 as stated: once two saveToCache calls racing on one key have both   *)
(* finished, the entry holds exactly the result set of the writer whose    *)
(* entry write came last, and no lock file is left for the key.            *)
(***************************************************************************)
Finished(p) == ret[p].pos \in {"returned", "threw"}

C28_LastWriterWins ==
    \A p, q \in Writers :
        (/\ p # q
         /\ args[p].query = args[q].query
         /\ Finished(p) /\ Finished(q)
         /\ ret[p].wrote > ret[q].wrote) =>
            /\ cache[CachePathOf(p)] = JsonEntry(args[p].results)
            /\ LockPathOfCall(p) \notin locks

(***************************************************************************)
(* C29: cache operations on different query strings do not interfere: no   *)
(* step of a saveToCache for one query changes the entry file or the lock  *)
(* file of another query, or what loadFromCache of another query returns,  *)
(* and a loadFromCache of a query nobody writes returns what the directory *)
(* holds for it, whatever writes are in progress.                          *)
(***************************************************************************)
SameFiles(q) ==
    /\ getCachePath(q) \in DOMAIN cache' <=> getCachePath(q) \in DOMAIN cache
    /\ getCachePath(q) \in DOMAIN cache =>
          cache'[getCachePath(q)] = cache[getCachePath(q)]
    /\ getLockPath(getCachePath(q)) \in locks'
          <=> getLockPath(getCachePath(q)) \in locks

C29_OtherKeysUntouched ==
    /\ [][\A p \in Writers :
            ret'[p] # ret[p] =>
               \A q \in RaceQueries \ {args[p].query} :
                  /\ SameFiles(q)
                  /\ loadFrom(TRUE, cache', locks', q) = loadFrom(TRUE, cache, locks, q)]_vars
    /\ [](\A r \in Readers :
            (/\ ret[r].pos = "returned"
             /\ \A p \in Writers : args[p].query # args[r].query) =>
               ret[r].value = loadFrom(TRUE, cache, locks, args[r].query))

\* a reader got the stored entry of its query while both writers were in the
\* middle of writing the entry of the other query
C29_Witness ==
    /\ \A p \in Writers : args[p].query # args[3].query /\ ret[p].pos = "opened"
    /\ ret[3].pos = "returned"
    /\ ret[3].value.hit
    /\ ret[3].value.results = StoredResults

(***************************************************************************)
(* C30: follow-up queries are not checked against the history: the batch   *)
(* of a refinement cycle is the evaluator's (capped) list, queries that    *)
(* were searched before included, and the whole batch is appended to the   *)
(* history again; with caching enabled, a repeated query whose entry is    *)
(* stored and not locked is answered from the cache - its task resolves at *)
(* once with the stored documents, without a provider call and without a   *)
(* summarization call.                                                     *)
(***************************************************************************)
Repeated(task) == \E k \in DOMAIN allQueries : allQueries[k] = task.query

Stored(task) ==
    /\ EntryPathOf(task) \in DOMAIN cache
    /\ cache[EntryPathOf(task)].kind = "json"
    /\ LockPathOf(task) \notin locks

C30_RepeatedQuerySearchedAgain ==
    [][/\ (pc = "eval_parse" /\ pc' = "refine_search") =>
             /\ \E additionalQueries \in EvaluatorLists :
                   IsBatchOf(BatchOf(tasks'), additionalQueries, cfg.maxQueries)
             /\ calls'.performSearch = calls.performSearch + 1
             /\ calls'.summarize = calls.summarize
             /\ calls'.provider = calls.provider
                   + Cardinality({t \in DOMAIN tasks' : tasks'[t].st = "searching"})
             /\ \A t \in DOMAIN tasks' :
                   (cfg.useCache /\ Repeated(tasks'[t]) /\ Stored(tasks'[t])) =>
                      /\ tasks'[t].st = "done"
                      /\ tasks'[t].cached
                      /\ tasks'[t].out =
                            [j \in DOMAIN cache[EntryPathOf(tasks'[t])].results |->
                                parseDoc(cache[EntryPathOf(tasks'[t])].results[j])]
       /\ (pc = "refine_search" /\ pc' \in {"eval_text", "filter_text"}) =>
             /\ Len(allQueries') = Len(allQueries) + Len(tasks)
             /\ \A t \in DOMAIN tasks :
                   allQueries'[Len(allQueries) + t] = tasks[t].query
       /\ \A t \in DOMAIN tasks :
             (tasks[t].cached /\ t \in DOMAIN tasks') => tasks'[t] = tasks[t]]_vars

\* the second follow-up batch repeated the first one's query: three searches
\* and three history entries, two provider calls
C30_Witness ==
    /\ cfg.useCache
    /\ pc = "filter_text"
    /\ allQueries = <<topic, ExactQuery, ExactQuery>>
    /\ calls.performSearch = 3
    /\ calls.provider = 2
    /\ Stored([query |-> ExactQuery])

(***************************************************************************)
(* C31: in interactive mode, when the feedback wait resolves with no input *)
(* the answer synthesized before the wait is returned as the report: no    *)
(* collaborator call of any kind follows, the spending counter keeps its   *)
(* value, and nothing happens after the report was returned.               *)
(***************************************************************************)
C31_NoFeedbackReturnsAnswer ==
    [][/\ (pc = "feedback_wait" /\ pc' # pc) =>
             /\ cfg.interactive
             /\ pc' = "done"
             /\ outcome' = [kind |-> "report", answer |-> AnswerText]
             /\ calls' = calls
             /\ currentSpending' = currentSpending
             /\ topic' = topic
       /\ pc = "done" => (calls' = calls /\ outcome' = outcome)]_vars

C31_Witness ==
    /\ cfg.interactive
    /\ pc = "done"
    /\ outcome = [kind |-> "report", answer |-> AnswerText]
    /\ calls.wait = 2
    /\ calls.answer = 1
    /\ currentSpending = 0
    /\ currentSpending < cfg.budget

(***************************************************************************)
(* C32: the accumulated results keep arrival order across cycles: a        *)
(* returning refinement search leaves the documents gathered so far where  *)
(* they are and puts its own documents behind them in the order            *)
(* performSearch returned them, and the final results (after the closing   *)
(* dedup) are the first occurrences of the links in that order - so a      *)
(* document first found in an earlier batch precedes every document first  *)
(* found in a later one.                                                   *)
(***************************************************************************)
FirstOccurrences(X) ==
    SelectSeq([k \in DOMAIN X |-> [doc |-> X[k], first |-> FirstIndex(X, X[k].link) = k]],
              LAMBDA e : e.first)

C32_ArrivalOrderKept ==
    [][/\ (pc = "initial_search" /\ searchResult'.kind = "fulfilled") =>
             results' = searchResult'.value
       /\ (pc = "refine_search" /\ searchResult'.kind = "fulfilled") =>
             /\ Len(results') = Len(results) + Len(searchResult'.value)
             /\ \A k \in DOMAIN results : results'[k] = results[k]
             /\ \A k \in DOMAIN searchResult'.value :
                   results'[Len(results) + k] = searchResult'.value[k]
       /\ (pc # "filter_text" /\ pc' = "filter_text") =>
             /\ Len(processedResults') = Len(FirstOccurrences(results'))
             /\ \A k \in DOMAIN processedResults' :
                   processedResults'[k] = FirstOccurrences(results')[k].doc
       /\ ~Searching => results' = results]_vars

\* the loop ended after a refinement cycle whose batch brought a link again
\* that the initial batch had found, next to a new one
C32_Witness ==
    /\ pc = "filter_text"
    /\ i = 1
    /\ calls.performSearch = 2
    /\ Len(results) = 3
    /\ Len(processedResults) = 2
    /\ results[1].link = results[2].link
    /\ processedResults = <<results[1], results[3]>>

(***************************************************************************)
(* C33: the result set handed to the source filter never holds two         *)
(* documents with one link, and it holds every link of the accumulated     *)
(* results, for any number of refinement cycles and any overlap between    *)
(* the cycles' results.                                                    *)
(***************************************************************************)
C33_FilterInputHasDistinctLinks ==
    pc \in {"filter_text", "filter_parse"} =>
        /\ NoSharedLink(processedResults)
        /\ {processedResults[k].link : k \in DOMAIN processedResults}
              = {results[k].link : k \in DOMAIN results}

\* two refinement cycles brought the link of the initial batch again
C33_Witness ==
    /\ pc = "filter_parse"
    /\ i = 2
    /\ Len(results) >= 3
    /\ results[1].link = results[2].link
    /\ results[1].link = results[3].link
    /\ Len(processedResults) < Len(results)

(***************************************************************************)
(* C34 as stated: with caching enabled the search provider is asked at     *)
(* most once per distinct query string within one runResearch call: no two *)
(* tasks of one batch fetch the same query, and a query of a later batch   *)
(* that was searched before is served from the cache.                      *)
(***************************************************************************)
Fetched(task) == ~task.cached

C34_ProviderOncePerQuery ==
    /\ [](cfg.useCache =>
            \A t, u \in DOMAIN tasks :
               (t # u /\ tasks[t].query = tasks[u].query) =>
                  ~(Fetched(tasks[t]) /\ Fetched(tasks[u])))
    /\ [][(cfg.useCache /\ pc = "eval_parse" /\ pc' = "refine_search") =>
            \A t \in DOMAIN tasks' : Repeated(tasks'[t]) => tasks'[t].cached]_vars

(***************************************************************************)
(* C35 as stated: constructing a pipeline with option overrides affects    *)
(* that instance only: the exported default RESEARCH_CONFIG keeps its      *)
(* values, and every pipeline constructed without options, before or       *)
(* after, works with the default limits.                                   *)
(***************************************************************************)
C35_OverridesStayInInstance ==
    /\ args = RESEARCH_CONFIG
    /\ \A p \in DOMAIN ret :
          ret[p].options = NoOptions => LimitsOf(p) = RESEARCH_CONFIG

(***************************************************************************)
(* C39 as stated: the two values filterResults returns agree: the index    *)
(* list has the length of filteredResults, and its j-th index i is in      *)
(* range and names the j-th document, filteredResults[j] = results[i-1].   *)
(***************************************************************************)
C39_ReturnedIndicesMatchDocuments ==
    ret.op = "filter" =>
        /\ Len(ret.out.limitedSources) = Len(ret.out.filteredResults)
        /\ \A j \in DOMAIN ret.out.limitedSources :
              /\ ret.out.limitedSources[j] \in DOMAIN args.results
              /\ j \in DOMAIN ret.out.filteredResults
              /\ ret.out.filteredResults[j]
                    = args.results[ret.out.limitedSources[j]]

(***************************************************************************)
(* C36: a lock file left behind by a crashed writer does not switch the    *)
(* cache off for its key for good: the key is a miss while the lock file   *)
(* is there, the next saveToCache of the query removes the lock file, and  *)
(* once that call has written its entry loadFromCache of the query returns *)
(* the saved documents.                                                    *)
(***************************************************************************)
StaleLockBefore(call) ==
    getLockPath(getCachePath(call.query)) \in call.locks

C36_StaleLockClearedBySave ==
    /\ \A q \in CacheQueries :
          getLockPath(getCachePath(q)) \in locks => ~loadFromCache(q).hit
    /\ (ret.op = "save" /\ cfg.useCache /\ StaleLockBefore(args)) =>
          /\ ~loadFrom(cfg.useCache, args.cache, args.locks, args.query).hit
          /\ getLockPath(getCachePath(args.query)) \notin locks
          /\ ~ret.threw =>
                /\ loadFromCache(args.query).hit
                /\ loadFromCache(args.query).results = args.results
    /\ (/\ ret.op = "load" /\ cfg.useCache
        /\ ret.before.op = "save" /\ ~ret.before.threw
        /\ args.before.query = args.query
        /\ StaleLockBefore(args.before)) =>
          /\ ret.value.hit
          /\ ret.value.results = args.before.results

\* only a lock file was there for the key; after the save the load hits
C36_Witness ==
    /\ cfg.useCache
    /\ ret.op = "load"
    /\ ret.before.op = "save"
    /\ args.before.query = args.query
    /\ StaleLockBefore(args.before)
    /\ getCachePath(args.query) \notin DOMAIN args.before.cache
    /\ args.before.results # <<>>
    /\ ret.value.hit
    /\ locks = args.before.locks \ {getLockPath(getCachePath(args.query))}

(***************************************************************************)
(* C37: the cache directory changes only in the step in which a task that  *)
(* was not served from the cache has the provider's answer and a summary   *)
(* for every document that gets one, and then only at the entry and the    *)
(* lock file of that task's query; the step in which the provider call or  *)
(* a summarization of a task fails leaves every entry and every lock file  *)
(* as it was.                                                              *)
(***************************************************************************)
DirectoryChanged == cache' # cache \/ locks' # locks

FetchedAndSummarized(task) ==
    /\ ~task.cached
    /\ task.raw \in ProviderResponses
    /\ task.info = resultInfoOf(task.raw)
    /\ DOMAIN task.sums = DOMAIN task.info

C37_EntryOnlyAfterFetchAndSummaries ==
    [][/\ DirectoryChanged =>
             \E t \in DOMAIN tasks :
                /\ tasks[t].st \in {"searching", "summarizing"}
                /\ t \in DOMAIN tasks'
                /\ tasks'[t].st \in {"done", "failed"}
                /\ FetchedAndSummarized(tasks'[t])
                /\ WrittenPaths \subseteq {getCachePath(tasks[t].query)}
                /\ DOMAIN cache \subseteq DOMAIN cache'
                /\ \A l \in (locks \ locks') \cup (locks' \ locks) :
                      l = getLockPath(getCachePath(tasks[t].query))
       /\ \A f \in failures' \ failures :
             f.call \in {"provider", "summarize"} =>
                /\ ~FetchedAndSummarized(tasks'[f.task])
                /\ UNCHANGED <<cache, locks>>]_vars

\* of two queries searched together one was stored and the other, whose
\* summarization failed, has neither an entry nor a lock file
C37_Witness ==
    /\ cfg.useCache
    /\ \E f \in failures :
          /\ f.call = "summarize"
          /\ f.search = calls.performSearch
          /\ f.task \in DOMAIN tasks
          /\ tasks[f.task].st = "failed"
          /\ getCachePath(tasks[f.task].query) \notin DOMAIN cache
          /\ getLockPath(getCachePath(tasks[f.task].query)) \notin locks
    /\ \E t \in DOMAIN tasks :
          /\ tasks[t].st = "done"
          /\ ~tasks[t].cached
          /\ getCachePath(tasks[t].query) \in DOMAIN cache
          /\ cache[getCachePath(tasks[t].query)] = JsonEntry(tasks[t].out)

(***************************************************************************)
(* C38: a saveToCache call that created its lock file and wrote its entry  *)
(* returns normally whatever a concurrent writer of the same key does      *)
(* between the call's test for the lock file and its removal: no writer    *)
(* that got past the entry write ends with an exception.                   *)
(***************************************************************************)
EntryWritten(p) ==
    ret[p].wrote > 0

C38_WriterPastEntryWriteReturns ==
    \A p \in Writers : EntryWritten(p) => ret[p].pos # "threw"

(***************************************************************************)
(* C40: in the definition that has the cache, whatever list the planner    *)
(* returns (the empty list included) and whatever maxQueries is, the       *)
(* initial batch handed to performSearch is not empty and its first query  *)
(* is the topic; the history of queries starts with the topic as well.     *)
(***************************************************************************)
C40_InitialBatchStartsWithTopic ==
    [][(pc = "plan_parse" /\ pc' = "initial_search" /\ cfg.definition = "first") =>
          /\ tasks' # <<>>
          /\ tasks'[1].query = topic
          /\ allQueries' # <<>>
          /\ allQueries'[1] = topic
          /\ calls'.performSearch = calls.performSearch + 1]_vars

\* no limit on the batch and an empty list from the planner: the topic alone
\* is searched
C40_Witness ==
    /\ cfg.definition = "first"
    /\ cfg.maxQueries = 0
    /\ pc = "initial_search"
    /\ topic # EmptyString
    /\ BatchOf(tasks) = <<topic>>
    /\ allQueries = <<topic>>

====
